---- MODULE Spec2Model ----
(***************************************************************************)
(* simplewaldb: the transaction / locking protocol of DB and Tx.           *)
(*                                                                         *)
(* The model follows transaction.go (PrepareTx, RunTx, Tx, TxTable) and    *)
(* db.go (BeginTx, EndTx).  Every goroutine of the embedding program is a  *)
(* thread that prepares a config, begins a transaction, uses it and ends   *)
(* it.  The per-table sync.RWMutex of db.locks is modelled by its          *)
(* documented behaviour: shared readers, one exclusive writer, and a       *)
(* blocked Lock call that keeps new RLock calls from acquiring the lock.   *)
(***************************************************************************)
EXTENDS Integers, Sequences, FiniteSets, TLC

\* Number of goroutines that run transactions.
NumThreads == 3
\* Number of tables the DB was opened with (cfg.tables of NewDB).
NumTables == 2
\* Longest read list and write list handed to PrepareTx.
MaxList == 2
\* Number of goroutines that use table handles (SpecOps).
NumOpThreads == 2
\* Number of record keys a caller reads and puts.
NumKeys == 1
\* Number of record keys put into the storage of a table (SpecTable, SpecIO,
\* SpecChain), number of byte values of the data, longest value, and the
\* number of put calls on one table.
NumStoreKeys == 2
NumBytes == 2
MaxValueLen == 1
MaxPuts == 3
\* Number of put calls on a table whose files may fail (SpecIO).
MaxIOPuts == 2
\* Number of puts that reach a table in a run of SpecChain.
MaxChainPuts == 2

Threads == 1..NumThreads
OpThreads == 1..NumOpThreads
Keys == 1..NumKeys
\* A TableKey is a string compared byte-wise; the model names the tables
\* 1..NumTables, with < on the numbers standing for < on the strings.
Tables == 1..NumTables
\* The keys a caller may hand to PrepareTx or Tx.Table: the tables of the DB
\* and one name that is no table of the DB.
UnknownTable == NumTables + 1
TableKeys == Tables \cup {UnknownTable}

None == 0
NoErr == "nil"
NoCfg == [err |-> "nocfg", lockOrder |-> <<>>, tables |-> <<>>]
\* The zero TxTable, and no table access in progress.
NoHandle == [tab |-> None, writable |-> FALSE]
NoAcc == [op |-> "none", tab |-> None, key |-> None]

VARIABLES
    locks,    \* db.locks: TableKey -> state of the table's sync.RWMutex
    cfg,      \* per thread: tx.cfg, the *TxConfig of its transaction
    tx,       \* per thread: its Tx value: [done, err]
    pc,       \* per thread: where it is in its program
    idx,      \* per thread: loop index i of BeginTx / EndTx over lockOrder
    run,      \* per thread: TRUE while inside TxConfig.RunTx
    bodyErr,  \* per thread: the error f(tx) returned inside RunTx
    ftx,      \* per thread: the Tx f received inside RunTx, a copy of RunTx's
    ret,      \* per thread: the last call that returned, and its error
    trace,    \* per thread: the Lock/RLock/Unlock/RUnlock calls of its
              \* current transaction that took effect, in order
    handle,   \* per thread: the TxTable it got from tx.Table and kept
    acc,      \* per thread: the call into the table it is inside of
    index,    \* per table: the keys of tab.index
    prepIn,   \* the last call of PrepareTx: its read list and write list,
              \* and the tables that were locked exclusively during the call
    prepOut,  \* what that call returned
    dataFile, \* per table: the bytes of <table>.data
    indexFile, \* per table: the bytes of <table>.index
    tab,      \* per table: the table object: files open or closed, tab.index
    hist,     \* per table: the calls of put with what they returned, oldest first
    out,      \* the result of the last call on a table or of the fluent API
    db        \* the *DB of NewDB: none, open or closed; the file handles that
              \* failed calls of newTable left open

\* The variables of the PrepareTx calls, and those of the storage of the
\* tables with the results of the calls that use it.
prepVars == <<prepIn, prepOut>>
storeVars == <<dataFile, indexFile, tab, hist, out, db>>

vars == <<locks, cfg, tx, pc, idx, run, bodyErr, ftx, ret, trace, handle, acc, index,
          prepVars, storeVars>>

----------------------------------------------------------------------------
(* sync.RWMutex, as BeginTx and EndTx use it.                              *)

\* A fresh mutex: new(sync.RWMutex).
\*   w     the thread that holds the lock exclusively, or None
\*   r     the threads that hold it shared
\*   ww    the threads blocked inside Lock()
\*   rw    the threads blocked inside RLock()
NewRWMutex == [w |-> None, r |-> {}, ww |-> {}, rw |-> {}]

\* tc.lock.RLock() called by p: acquires unless a writer holds the lock or a
\* Lock call is pending (a blocked Lock excludes new readers).
RLockCall(l, p) ==
    IF l.w = None /\ l.ww = {}
    THEN [l EXCEPT !.r = @ \cup {p}]
    ELSE [l EXCEPT !.rw = @ \cup {p}]

\* Lock() that looks at the writer only and not at the readers.
LockCall_IgnoresReaders(l, p) ==
    IF l.w = None THEN [l EXCEPT !.w = p] ELSE [l EXCEPT !.ww = @ \cup {p}]

\* tc.lock.Lock() called by p: acquires when nobody holds the lock.
LockCall(l, p) ==
    IF l.w = None /\ l.r = {}
    THEN [l EXCEPT !.w = p]
    ELSE [l EXCEPT !.ww = @ \cup {p}]

\* A blocked Lock() of p may return once the lock is free.
CanWakeWriter(l, p) == p \in l.ww /\ l.w = None /\ l.r = {}
WakeWriter(l, p) == [l EXCEPT !.w = p, !.ww = @ \ {p}]

\* tc.lock.RUnlock() by p.
RUnlock(l, p) == [l EXCEPT !.r = @ \ {p}]

\* tc.lock.Unlock(): the writer leaves and every reader blocked in RLock()
\* is let in before the next writer.
Unlock(l, p) == [l EXCEPT !.w = None, !.r = l.rw, !.rw = {}]

\* p holds l (in either mode).
Holds(l, p) == l.w = p \/ p \in l.r

----------------------------------------------------------------------------
(* DB.PrepareTx                                                            *)

\* One txTableCfg (the table and the lock are those of the key).
TxTableCfg(key, writable) == [key |-> key, writable |-> writable]

\* PrepareTx without the check for a table already in cfg.tables.
RECURSIVE AddTables_NoTwiceCheck(_, _, _)
AddTables_NoTwiceCheck(c, keys, writable) ==
    IF c.err # NoErr \/ keys = <<>> THEN c
    ELSE LET key == Head(keys) IN
         IF key \notin Tables
         THEN [c EXCEPT !.err = "does not exist"]
         ELSE AddTables_NoTwiceCheck(
                [err |-> NoErr,
                 lockOrder |-> Append(c.lockOrder, TxTableCfg(key, writable)),
                 tables |-> [k \in DOMAIN c.tables \cup {key} |->
                               IF k = key THEN TxTableCfg(key, writable)
                               ELSE c.tables[k]]],
                Tail(keys), writable)

\* The loop body of PrepareTx over one list of keys (read list: writable
\* FALSE, write list: writable TRUE).  c is the config under construction.
RECURSIVE AddTables(_, _, _)
AddTables(c, keys, writable) ==
    IF c.err # NoErr \/ keys = <<>> THEN c
    ELSE LET key == Head(keys) IN
         IF key \in DOMAIN c.tables
         THEN [c EXCEPT !.err = "locked twice"]
         ELSE IF key \notin Tables
         THEN [c EXCEPT !.err = "does not exist"]
         ELSE AddTables(
                [err |-> NoErr,
                 lockOrder |-> Append(c.lockOrder, TxTableCfg(key, writable)),
                 tables |-> [k \in DOMAIN c.tables \cup {key} |->
                               IF k = key THEN TxTableCfg(key, writable)
                               ELSE c.tables[k]]],
                Tail(keys), writable)

\* Insert e into the sorted sequence s before the first entry with a larger key.
RECURSIVE InsertByKey(_, _)
InsertByKey(s, e) ==
    IF s = <<>> THEN <<e>>
    ELSE IF e.key < Head(s).key THEN <<e>> \o s
    ELSE <<Head(s)>> \o InsertByKey(Tail(s), e)

RECURSIVE SortByKey(_)
SortByKey(s) ==
    IF s = <<>> THEN <<>>
    ELSE InsertByKey(SortByKey(Tail(s)), Head(s))

\* The lock order left as the lists gave it (no sort).
SortLockOrder_Unsorted(s) == s

\* sort.Slice(cfg.lockOrder, key[i] < key[j]).
SortLockOrder(s) == SortByKey(s)

EmptyCfg == [err |-> NoErr, lockOrder |-> <<>>, tables |-> <<>>]

\* PrepareTx(WithReadTables(readTables...), WithWriteTables(writeTables...)):
\* a config, or NoCfg with the error.
PrepareTx(readTables, writeTables) ==
    LET c == AddTables(AddTables(EmptyCfg, readTables, FALSE), writeTables, TRUE)
    IN IF c.err # NoErr
       THEN [NoCfg EXCEPT !.err = c.err]
       ELSE [c EXCEPT !.lockOrder = SortLockOrder(@)]

\* The key lists a caller may pass.
KeyLists == UNION {[1..n -> TableKeys] : n \in 0..MaxList}

\* Everything PrepareTx returns for those lists, and the configs among them.
\* PrepareTx reads db.tables and db.locks under db.mu and changes nothing, so
\* a thread that begins a transaction may hold any of these configs.
PrepareResults == {PrepareTx(r, w) : r \in KeyLists, w \in KeyLists}
PreparedConfigs == {c \in PrepareResults : c.err = NoErr}

\* The zero Tx and the result of no call.
NewTx == [done |-> FALSE, err |-> NoErr]
NoRet == [op |-> "none", err |-> NoErr]

\* No call of PrepareTx yet.
NoCall == [called |-> FALSE, readTables |-> <<>>, writeTables |-> <<>>,
           exclusive |-> {}]

\* The table newTable returns for files that do not exist yet: both files
\* created empty and open, tab.index an empty map.
NewTable == [open |-> TRUE, index |-> <<>>]

\* No result yet.  n is a byte count, val a byte slice (isNil: the nil slice),
\* ok a boolean result.
\* db := &DB{...} as NewDB returns it; no file handle is left from a failed
\* newTable.
NewDBValue == [state |-> "open", leaked |-> {}]
NoOut == [op |-> "none", table |-> None, key |-> <<>>, err |-> NoErr,
          n |-> 0, val |-> <<>>, isNil |-> TRUE, ok |-> FALSE, visited |-> <<>>]

----------------------------------------------------------------------------
(* The state after NewDB: every lock fresh, no thread has a transaction.   *)

Init ==
    /\ locks = [t \in Tables |-> NewRWMutex]
    /\ cfg = [p \in Threads |-> NoCfg]
    /\ tx = [p \in Threads |-> NewTx]
    /\ pc = [p \in Threads |-> "idle"]
    /\ idx = [p \in Threads |-> 0]
    /\ run = [p \in Threads |-> FALSE]
    /\ bodyErr = [p \in Threads |-> NoErr]
    /\ ftx = [p \in Threads |-> NewTx]
    /\ ret = [p \in Threads |-> NoRet]
    /\ trace = [p \in Threads |-> <<>>]
    /\ handle = [p \in Threads |-> NoHandle]
    /\ acc = [p \in Threads |-> NoAcc]
    /\ index = [t \in Tables |-> {}]
    /\ prepIn = NoCall
    /\ prepOut = NoCfg
    /\ dataFile = [t \in Tables |-> <<>>]
    /\ indexFile = [t \in Tables |-> <<>>]
    /\ tab = [t \in Tables |-> NewTable]
    /\ hist = [t \in Tables |-> <<>>]
    /\ out = NoOut
    /\ db = NewDBValue

\* The thread has no live transaction and may begin one.
Free(p) == pc[p] \in {"idle", "ended", "returned"}

----------------------------------------------------------------------------
(* DB.BeginTx                                                              *)

\* The entry of cfg.lockOrder the loop of BeginTx / EndTx is at.
CurTc(p) == cfg[p].lockOrder[idx[p]]

\* tx := Tx{cfg: cfg} and the start of the loop over cfg.lockOrder.  With an
\* empty lockOrder BeginTx returns at once.  The thread keeps no TxTable of an
\* earlier Tx once it begins another.
EnterBeginTx(p, c, inRun) ==
    /\ Free(p)
    /\ cfg' = [cfg EXCEPT ![p] = c]
    /\ tx' = [tx EXCEPT ![p] = NewTx]
    /\ run' = [run EXCEPT ![p] = inRun]
    /\ bodyErr' = [bodyErr EXCEPT ![p] = NoErr]
    /\ ftx' = [ftx EXCEPT ![p] = NewTx]
    /\ ret' = [ret EXCEPT ![p] = NoRet]
    /\ trace' = [trace EXCEPT ![p] = <<>>]
    /\ IF c.lockOrder = <<>>
       THEN pc' = [pc EXCEPT ![p] = "begun"] /\ idx' = [idx EXCEPT ![p] = 0]
       ELSE pc' = [pc EXCEPT ![p] = "locking"] /\ idx' = [idx EXCEPT ![p] = 1]
    /\ handle' = [handle EXCEPT ![p] = NoHandle]
    /\ UNCHANGED <<locks, acc, index, prepVars, storeVars>>

\* tx, err := db.BeginTx(txc), txc a config PrepareTx returned.
BeginTx(p) == \E c \in PreparedConfigs : EnterBeginTx(p, c, FALSE)

\* BeginTx that returns the transaction after its first lock call.
LockReturned_FirstOnly(p) ==
    /\ trace' = [trace EXCEPT ![p] =
                   Append(@, <<IF CurTc(p).writable THEN "Lock" ELSE "RLock",
                               CurTc(p).key>>)]
    /\ pc' = [pc EXCEPT ![p] = "begun"]
    /\ idx' = [idx EXCEPT ![p] = 0]

\* The lock call at lockOrder[idx] has returned: the loop goes on to the next
\* entry, and after the last one BeginTx returns the transaction.
LockReturned(p) ==
    /\ trace' = [trace EXCEPT ![p] =
                   Append(@, <<IF CurTc(p).writable THEN "Lock" ELSE "RLock",
                               CurTc(p).key>>)]
    /\ IF idx[p] = Len(cfg[p].lockOrder)
       THEN pc' = [pc EXCEPT ![p] = "begun"] /\ idx' = [idx EXCEPT ![p] = 0]
       ELSE pc' = [pc EXCEPT ![p] = "locking"] /\ idx' = [idx EXCEPT ![p] = idx[p] + 1]

\* BeginTx that takes every lock shared, whatever tc.writable says.
BeginLockCall_AlwaysRLock(tc, l, p) == RLockCall(l, p)

\* The mode BeginTx locks tc in: Lock() when writable, RLock() otherwise.
BeginLockCall(tc, l, p) == IF tc.writable THEN LockCall(l, p) ELSE RLockCall(l, p)

\* One iteration of BeginTx's loop: the call of tc.lock.Lock() or
\* tc.lock.RLock(), which returns at once or blocks.
LockStep(p) ==
    /\ pc[p] = "locking"
    /\ LET tc == CurTc(p)
           l == BeginLockCall(tc, locks[tc.key], p)
       IN /\ locks' = [locks EXCEPT ![tc.key] = l]
          /\ IF Holds(l, p)
             THEN LockReturned(p)
             ELSE pc' = [pc EXCEPT ![p] = "blocked"] /\ UNCHANGED <<idx, trace>>
    /\ UNCHANGED <<cfg, tx, run, bodyErr, ftx, ret, handle, acc, index, prepVars, storeVars>>

\* A blocked tc.lock.Lock() returns.
WakeWriterStep(p) ==
    /\ pc[p] = "blocked"
    /\ CurTc(p).writable
    /\ CanWakeWriter(locks[CurTc(p).key], p)
    /\ locks' = [locks EXCEPT ![CurTc(p).key] = WakeWriter(@, p)]
    /\ LockReturned(p)
    /\ UNCHANGED <<cfg, tx, run, bodyErr, ftx, ret, handle, acc, index, prepVars, storeVars>>

\* A blocked tc.lock.RLock() returns: the writer's Unlock let the reader in.
WakeReaderStep(p) ==
    /\ pc[p] = "blocked"
    /\ ~CurTc(p).writable
    /\ p \in locks[CurTc(p).key].r
    /\ LockReturned(p)
    /\ UNCHANGED <<locks, cfg, tx, run, bodyErr, ftx, ret, handle, acc, index, prepVars, storeVars>>

----------------------------------------------------------------------------
(* DB.EndTx and TxConfig.RunTx                                             *)

ErrAlreadyDone == "transaction was already done"
BodyErrors == {NoErr, "body error"}

\* The indices of lockOrder in ascending order.
EndTxOrder_Forward(n) == [k \in 1..n |-> k]

\* The indices of lockOrder in the order the loop of EndTx visits them:
\* for i := len(lockOrder) - 1; i >= 0; i--.
EndTxOrder(n) == [k \in 1..n |-> n + 1 - k]

\* The position of index i in the order of EndTx's loop.
EndTxPos(n, i) == CHOOSE k \in 1..n : EndTxOrder(n)[k] = i

\* EndTx that leaves the shared locks locked.
EndTxRelease_KeepsRead(tc, l, p) == IF tc.writable THEN Unlock(l, p) ELSE l

\* The release EndTx does for tc: Unlock() when writable, RUnlock() otherwise.
EndTxRelease(tc, l, p) == IF tc.writable THEN Unlock(l, p) ELSE RUnlock(l, p)

\* What RunTx returns: f's error if there is one, else EndTx's.
RunTxResult(err, endErr) == IF err # NoErr THEN err ELSE endErr

\* tx.done = true and the return of EndTx; inside RunTx, RunTx returns too.
\* fErr is what f returned (inside RunTx).
EndTxReturns(p, fErr) ==
    /\ tx' = [tx EXCEPT ![p].done = TRUE]
    /\ idx' = [idx EXCEPT ![p] = 0]
    /\ run' = [run EXCEPT ![p] = FALSE]
    /\ IF run[p]
       THEN /\ pc' = [pc EXCEPT ![p] = "returned"]
            /\ ret' = [ret EXCEPT ![p] =
                         [op |-> "RunTx", err |-> RunTxResult(fErr, NoErr)]]
       ELSE /\ pc' = [pc EXCEPT ![p] = "ended"]
            /\ ret' = [ret EXCEPT ![p] = [op |-> "EndTx", err |-> NoErr]]

\* EndTx called with tx.done false: the start of the release loop.  With an
\* empty lockOrder EndTx returns at once.
EnterEndTx(p, fErr) ==
    IF cfg[p].lockOrder = <<>>
    THEN EndTxReturns(p, fErr)
    ELSE /\ pc' = [pc EXCEPT ![p] = "unlocking"]
         /\ idx' = [idx EXCEPT ![p] = EndTxOrder(Len(cfg[p].lockOrder))[1]]
         /\ UNCHANGED <<tx, run, ret>>

\* EndTx without the tx.done check: a second call releases once more.
EndTxIsDone_Unchecked(t) == FALSE

\* if tx.done { return error }
EndTxIsDone(t) == t.done

\* err := db.EndTx(&tx), called by the thread itself on the Tx it got from
\* BeginTx: on a done transaction it returns the error and does nothing else.
EndTx(p) ==
    /\ pc[p] \in {"begun", "ended"}
    /\ ~run[p]
    /\ IF EndTxIsDone(tx[p])
       THEN /\ ret' = [ret EXCEPT ![p] = [op |-> "EndTx", err |-> ErrAlreadyDone]]
            /\ UNCHANGED <<tx, pc, idx, run>>
       ELSE EnterEndTx(p, NoErr)
    /\ UNCHANGED <<locks, cfg, bodyErr, ftx, trace, handle, acc, index, prepVars, storeVars>>

\* EndTx that pops each entry off tx.cfg.lockOrder as it releases it.
UnlockStep_PopsLockOrder(p) ==
    /\ pc[p] = "unlocking"
    /\ LET tc == cfg[p].lockOrder[idx[p]]
       IN /\ locks' = [locks EXCEPT ![tc.key] =
                         IF tc.writable THEN Unlock(@, p) ELSE RUnlock(@, p)]
          /\ trace' = [trace EXCEPT ![p] =
                         Append(@, <<IF tc.writable THEN "Unlock" ELSE "RUnlock",
                                     tc.key>>)]
          /\ cfg' = [cfg EXCEPT ![p].lockOrder = SubSeq(@, 1, idx[p] - 1)]
          /\ IF idx[p] = 1
             THEN /\ tx' = [tx EXCEPT ![p].done = TRUE]
                  /\ idx' = [idx EXCEPT ![p] = 0]
                  /\ run' = [run EXCEPT ![p] = FALSE]
                  /\ pc' = [pc EXCEPT ![p] = IF run[p] THEN "returned" ELSE "ended"]
                  /\ ret' = [ret EXCEPT ![p] =
                               [op |-> IF run[p] THEN "RunTx" ELSE "EndTx",
                                err |-> IF run[p] THEN bodyErr[p] ELSE "nil"]]
             ELSE /\ idx' = [idx EXCEPT ![p] = idx[p] - 1]
                  /\ UNCHANGED <<tx, pc, run, ret>>
    /\ UNCHANGED <<bodyErr, ftx, handle, acc, index, prepVars, storeVars>>

\* One iteration of EndTx's loop: the release of lockOrder[i]; after the last
\* one EndTx sets tx.done and returns.
UnlockStep(p) ==
    /\ pc[p] = "unlocking"
    /\ LET tc == CurTc(p)
           n == Len(cfg[p].lockOrder)
           k == EndTxPos(n, idx[p])
       IN /\ locks' = [locks EXCEPT ![tc.key] = EndTxRelease(tc, @, p)]
          /\ trace' = [trace EXCEPT ![p] =
                         Append(@, <<IF tc.writable THEN "Unlock" ELSE "RUnlock",
                                     tc.key>>)]
          /\ IF k = n
             THEN EndTxReturns(p, bodyErr[p])
             ELSE /\ idx' = [idx EXCEPT ![p] = EndTxOrder(n)[k + 1]]
                  /\ UNCHANGED <<tx, pc, run, ret>>
    /\ UNCHANGED <<cfg, bodyErr, ftx, handle, acc, index, prepVars, storeVars>>

\* err := txc.RunTx(f): the BeginTx inside RunTx.
RunTx(p) == \E c \in PreparedConfigs : EnterBeginTx(p, c, TRUE)

\* RunTx that returns f's error without ending the transaction.
RunTxAfterBody_SkipEnd(p, err) ==
    /\ pc[p] = "begun"
    /\ run[p]
    /\ bodyErr' = [bodyErr EXCEPT ![p] = err]
    /\ IF err # NoErr
       THEN /\ pc' = [pc EXCEPT ![p] = "returned"]
            /\ ret' = [ret EXCEPT ![p] = [op |-> "RunTx", err |-> err]]
            /\ run' = [run EXCEPT ![p] = FALSE]
            /\ UNCHANGED <<tx, idx>>
       ELSE EnterEndTx(p, err)
    /\ UNCHANGED <<locks, cfg, ftx, trace, handle, acc, index, prepVars, storeVars>>

\* Inside RunTx: f(tx) has returned err, and RunTx calls EndTx(&tx) whatever
\* err is.
RunTxAfterBody(p, err) ==
    /\ pc[p] = "begun"
    /\ run[p]
    /\ bodyErr' = [bodyErr EXCEPT ![p] = err]
    /\ EnterEndTx(p, err)
    /\ UNCHANGED <<locks, cfg, ftx, trace, handle, acc, index, prepVars, storeVars>>

\* Inside RunTx: f calls db.EndTx(&tx) on its parameter, the copy of the Tx
\* RunTx keeps.  The call tests and sets done on the copy.
BodyEndTx(p) ==
    /\ pc[p] = "begun"
    /\ run[p]
    /\ IF EndTxIsDone(ftx[p])
       THEN /\ ret' = [ret EXCEPT ![p] = [op |-> "EndTx", err |-> ErrAlreadyDone]]
            /\ UNCHANGED <<ftx, pc, idx>>
       ELSE IF cfg[p].lockOrder = <<>>
       THEN /\ ftx' = [ftx EXCEPT ![p].done = TRUE]
            /\ ret' = [ret EXCEPT ![p] = [op |-> "EndTx", err |-> NoErr]]
            /\ UNCHANGED <<pc, idx>>
       ELSE /\ pc' = [pc EXCEPT ![p] = "bodyUnlocking"]
            /\ idx' = [idx EXCEPT ![p] = EndTxOrder(Len(cfg[p].lockOrder))[1]]
            /\ UNCHANGED <<ftx, ret>>
    /\ UNCHANGED <<locks, cfg, tx, run, bodyErr, trace, handle, acc, index,
                   prepVars, storeVars>>

\* One iteration of the loop of the EndTx f called: the release of
\* lockOrder[i]; after the last one the copy is done and f goes on.
BodyUnlockStep(p) ==
    /\ pc[p] = "bodyUnlocking"
    /\ LET tc == CurTc(p)
           n == Len(cfg[p].lockOrder)
           k == EndTxPos(n, idx[p])
       IN /\ locks' = [locks EXCEPT ![tc.key] = EndTxRelease(tc, @, p)]
          /\ trace' = [trace EXCEPT ![p] =
                         Append(@, <<IF tc.writable THEN "Unlock" ELSE "RUnlock",
                                     tc.key>>)]
          /\ IF k = n
             THEN /\ ftx' = [ftx EXCEPT ![p].done = TRUE]
                  /\ pc' = [pc EXCEPT ![p] = "begun"]
                  /\ idx' = [idx EXCEPT ![p] = 0]
                  /\ ret' = [ret EXCEPT ![p] = [op |-> "EndTx", err |-> NoErr]]
             ELSE /\ idx' = [idx EXCEPT ![p] = EndTxOrder(n)[k + 1]]
                  /\ UNCHANGED <<ftx, pc, ret>>
    /\ UNCHANGED <<cfg, tx, run, bodyErr, handle, acc, index, prepVars, storeVars>>

\* The mode p holds l in is the mode tc was locked in.
HoldsAs(tc, l, p) == IF tc.writable THEN l.w = p ELSE p \in l.r

\* An iteration of EndTx's loop whose lock the thread holds.
UnlockHeldStep(p) ==
    /\ pc[p] = "unlocking"
    /\ HoldsAs(CurTc(p), locks[CurTc(p).key], p)
    /\ UnlockStep(p)

\* sync.RWMutex released by a goroutine that does not hold it.  Unlock() with
\* no writer holding or waiting, and RUnlock() with no reader, end the
\* process ("fatal error: sync: Unlock of unlocked RWMutex").  Otherwise the
\* call returns: Unlock() takes the lock from the writer, RUnlock() takes one
\* reader q off the count.
UnheldFatal(tc, l) ==
    IF tc.writable THEN l.w = None /\ l.ww = {} ELSE l.r = {}
UnheldRelease(tc, l, q) ==
    IF tc.writable THEN Unlock(l, None) ELSE RUnlock(l, q)

\* The process after a fatal error of the runtime: no goroutine runs on.
Crashed == [p \in Threads |-> "crashed"]

\* An iteration of EndTx's loop whose lock the thread does not hold.
UnlockUnheldStep(p) ==
    /\ pc[p] = "unlocking"
    /\ LET tc == CurTc(p)
           n == Len(cfg[p].lockOrder)
           k == EndTxPos(n, idx[p])
       IN /\ ~HoldsAs(tc, locks[tc.key], p)
          /\ trace' = [trace EXCEPT ![p] =
                         Append(@, <<IF tc.writable THEN "Unlock" ELSE "RUnlock",
                                     tc.key>>)]
          /\ IF UnheldFatal(tc, locks[tc.key])
             THEN /\ pc' = Crashed
                  /\ UNCHANGED <<locks, tx, idx, run, ret>>
             ELSE /\ \E q \in (IF tc.writable THEN {None} ELSE locks[tc.key].r) :
                        locks' = [locks EXCEPT ![tc.key] = UnheldRelease(tc, @, q)]
                  /\ IF k = n
                     THEN EndTxReturns(p, bodyErr[p])
                     ELSE /\ idx' = [idx EXCEPT ![p] = EndTxOrder(n)[k + 1]]
                          /\ UNCHANGED <<tx, pc, run, ret>>
    /\ UNCHANGED <<cfg, bodyErr, ftx, handle, acc, index, prepVars, storeVars>>

----------------------------------------------------------------------------
(* Tx.Table, the TxTable methods and the fluent Tx.Put.  A call that gets   *)
(* past its own checks is inside the table (tt.tab.read, get, put, count)   *)
(* until it returns: acc holds it meanwhile.                                *)

ErrTxDone == "transaction is done"
ErrKeyNotFound == "key not found"
ErrTableNotInTx == "table not in tx"
ErrTableNotWritableInTx == "table not writable in tx"
\* The Go runtime's fatal error for an unsynchronised map access.
ErrConcurrentMap == "concurrent map read and map write"

\* The outcome of the checks a method makes before it calls into the table:
\* the error it returns at once, or the go-ahead.
Reject(err) == [err |-> err, access |-> FALSE]
Proceed == [err |-> NoErr, access |-> TRUE]

\* Tx.Table without the lookup in tx.cfg.tables: a handle for any key.
Table_NoCfgCheck(t, c, key) ==
    IF t.done
    THEN [tt |-> NoHandle, err |-> ErrTxDone]
    ELSE [tt |-> [tab |-> key, writable |-> FALSE], err |-> NoErr]

\* func (tx *Tx) Table(key TableKey) (TxTable, error)
Table(t, c, key) ==
    IF t.done
    THEN [tt |-> NoHandle, err |-> ErrTxDone]
    ELSE IF key \notin DOMAIN c.tables
         THEN [tt |-> NoHandle, err |-> ErrTableNotInTx]
         ELSE [tt |-> [tab |-> key, writable |-> c.tables[key].writable],
               err |-> NoErr]

\* func (tt *TxTable) Read: return tt.tab.read(key, buf)
TxTableRead(tt, t) == Proceed

\* func (tt *TxTable) Get
TxTableGet(tt, t) == IF t.done THEN Reject(ErrTxDone) ELSE Proceed

\* TxTable.Put without the test of tt.writable.
TxTablePut_NoWritableCheck(tt, t) == IF t.done THEN Reject(ErrTxDone) ELSE Proceed

\* func (tt *TxTable) Put
TxTablePut(tt, t) ==
    IF t.done
    THEN Reject(ErrTxDone)
    ELSE IF ~tt.writable THEN Reject(ErrTableNotWritableInTx) ELSE Proceed

\* func (tt *TxTable) Count
TxTableCount(tt, t) == IF t.done THEN Reject(ErrTxDone) ELSE Proceed

HandleOps == {"Read", "Get", "Put", "Count"}
PutOps == {"Put", "Tx.Put"}

\* tt.<op>(...) on the TxTable tt whose tx field points at the Tx t.
TxTableCall(op, tt, t) ==
    CASE op = "Read" -> TxTableRead(tt, t)
      [] op = "Get" -> TxTableGet(tt, t)
      [] op = "Put" -> TxTablePut(tt, t)
      [] op = "Count" -> TxTableCount(tt, t)

\* Tx.Put without the test of tx.err.
TxPut_NoErrCheck(t, c, table) ==
    IF t.done
    THEN Reject(NoErr)
    ELSE IF table \notin DOMAIN c.tables
         THEN Reject(ErrTableNotInTx)
         ELSE IF ~c.tables[table].writable
              THEN Reject(ErrTableNotWritableInTx)
              ELSE Proceed

\* func (tx *Tx) Put(table, key, value): the checks before tc.table.put.  A
\* done or errored tx is returned as it is.
TxPut(t, c, table) ==
    IF t.done \/ t.err # NoErr
    THEN Reject(NoErr)
    ELSE IF table \notin DOMAIN c.tables
         THEN Reject(ErrTableNotInTx)
         ELSE IF ~c.tables[table].writable
              THEN Reject(ErrTableNotWritableInTx)
              ELSE Proceed

\* The thread has a Tx it got from BeginTx and is in none of its calls.
AtRest(p) == pc[p] \in {"begun", "ended"} /\ ~run[p]

\* tt, err := tx.Table(key); the thread keeps tt if err is nil.
CallTable(p) ==
    /\ AtRest(p)
    /\ \E key \in TableKeys :
        LET r == Table(tx[p], cfg[p], key)
        IN /\ handle' = [handle EXCEPT ![p] = IF r.err = NoErr THEN r.tt ELSE @]
           /\ ret' = [ret EXCEPT ![p] = [op |-> "Table", err |-> r.err]]
    /\ UNCHANGED <<locks, cfg, tx, pc, idx, run, bodyErr, ftx, trace, acc, index, prepVars, storeVars>>

\* A call of tt.Read, tt.Get, tt.Put or tt.Count on the TxTable the thread
\* kept: it returns its error at once or enters the table.
CallTxTable(p) ==
    /\ AtRest(p)
    /\ handle[p] # NoHandle
    /\ \E op \in HandleOps :
        \E key \in (IF op = "Count" THEN {None} ELSE Keys) :
            LET r == TxTableCall(op, handle[p], tx[p])
            IN IF r.access
               THEN /\ acc' = [acc EXCEPT ![p] =
                                 [op |-> op, tab |-> handle[p].tab, key |-> key]]
                    /\ pc' = [pc EXCEPT ![p] = "intable"]
                    /\ UNCHANGED ret
               ELSE /\ ret' = [ret EXCEPT ![p] = [op |-> op, err |-> r.err]]
                    /\ UNCHANGED <<acc, pc>>
    /\ UNCHANGED <<locks, cfg, tx, idx, run, bodyErr, ftx, trace, handle, index, prepVars, storeVars>>

\* tx.Put(table, key, value) of the fluent API: a failed check sets tx.err.
CallTxPut(p) ==
    /\ AtRest(p)
    /\ \E table \in TableKeys, key \in Keys :
        LET r == TxPut(tx[p], cfg[p], table)
        IN IF r.access
           THEN /\ acc' = [acc EXCEPT ![p] =
                             [op |-> "Tx.Put", tab |-> table, key |-> key]]
                /\ pc' = [pc EXCEPT ![p] = "intable"]
                /\ UNCHANGED <<tx, ret>>
           ELSE /\ tx' = [tx EXCEPT ![p].err = IF r.err # NoErr THEN r.err ELSE @]
                /\ ret' = [ret EXCEPT ![p] =
                             [op |-> "Tx.Put",
                              err |-> IF r.err # NoErr THEN r.err ELSE tx[p].err]]
                /\ UNCHANGED <<acc, pc>>
    /\ UNCHANGED <<locks, cfg, idx, run, bodyErr, ftx, trace, handle, index, prepVars, storeVars>>

\* Another thread is inside the same table, and one of the two is in put:
\* tab.index is a plain map, so the two accesses race.
Racing(p) ==
    \E q \in Threads \ {p} :
        /\ acc[q] # NoAcc
        /\ acc[q].tab = acc[p].tab
        /\ (acc[p].op \in PutOps \/ acc[q].op \in PutOps)

\* table.read / table.get: ErrKeyNotFound unless the key is in tab.index;
\* table.count and table.put return no error.
TableResult(a, keys) ==
    IF a.op \in {"Read", "Get"} /\ a.key \notin keys THEN ErrKeyNotFound ELSE NoErr

\* What the call into the table can return.  A racing access has no defined
\* result: it finds the key, misses it, or the runtime stops the program.
TableOutcomes(a, keys, racing) ==
    IF racing
    THEN {NoErr, ErrConcurrentMap}
            \cup (IF a.op \in {"Read", "Get"} THEN {ErrKeyNotFound} ELSE {})
    ELSE {TableResult(a, keys)}

\* The call into the table returns: put has set tab.index[key]; the fluent
\* Put records an error in tx.err.
TableReturn(p) ==
    /\ pc[p] = "intable"
    /\ LET a == acc[p]
       IN \E e \in TableOutcomes(a, index[a.tab], Racing(p)) :
            /\ index' = IF a.op \in PutOps /\ e = NoErr
                        THEN [index EXCEPT ![a.tab] = @ \cup {a.key}]
                        ELSE index
            /\ tx' = IF a.op = "Tx.Put" /\ e # NoErr
                     THEN [tx EXCEPT ![p].err = e]
                     ELSE tx
            /\ ret' = [ret EXCEPT ![p] = [op |-> a.op, err |-> e]]
    /\ acc' = [acc EXCEPT ![p] = NoAcc]
    /\ pc' = [pc EXCEPT ![p] = IF tx[p].done THEN "ended" ELSE "begun"]
    /\ UNCHANGED <<locks, cfg, idx, run, bodyErr, ftx, trace, handle, prepVars, storeVars>>

----------------------------------------------------------------------------
(* The encoding of index records (indexRecord.decode, writeEntry).  A file  *)
(* is the sequence of its bytes, a byte a number in 0..255.                 *)

KeySize == 16
RecordSeparatorSize == 64
IndexRecordSize == 4*2 + 1 + 8*2 + 1 + 8*2 + 1 + KeySize*2 + 1 + 8*2 + 1
SepBufferSize == KeySize*2 + RecordSeparatorSize + 8
SpaceChar == 32
LfChar == 10

\* math.MaxInt64, the prevIndexOffset of the first record of a key.  The
\* number stands for 2^63 - 1, which the model checker's integers do not
\* reach; every offset and size of the model is far below it.
MaxInt64 == 2147483647
\* Any other 64-bit value that is not below 2^31 (read back from bytes that no
\* writeEntry call produced): an offset beyond the end of every file.
Beyond == 2147483646

Min(a, b) == IF a < b THEN a ELSE b
Max(a, b) == IF a > b THEN a ELSE b

\* keyFromInt(i): the 16-byte key with i in its fourth byte.
KeyFromInt(i) == [j \in 1..KeySize |-> IF j = 4 THEN i ELSE 0]
StoreKeys == {KeyFromInt(i) : i \in 1..NumStoreKeys}
Bytes == 1..NumBytes
Values == UNION {[1..n -> Bytes] : n \in 0..MaxValueLen}

\* hex.Encode: two lower-case digits per byte.
HexChar(d) == IF d < 10 THEN 48 + d ELSE 87 + d
HexEncode(b) ==
    [j \in 1..(2 * Len(b)) |->
        IF j % 2 = 1 THEN HexChar(b[(j + 1) \div 2] \div 16)
        ELSE HexChar(b[j \div 2] % 16)]

\* hex.Decode: the digits 0-9, a-f and A-F; any other byte is an error.
\* The value of a digit that takes a lower-case letter for an upper-case one.
HexVal_UpperOnly(c) == IF c <= 57 THEN c - 48 ELSE c - 55
IsHexChar(c) == (c >= 48 /\ c <= 57) \/ (c >= 97 /\ c <= 102) \/ (c >= 65 /\ c <= 70)
HexVal(c) == IF c <= 57 THEN c - 48 ELSE IF c >= 97 THEN c - 87 ELSE c - 55
IsHex(s) == \A j \in 1..Len(s) : IsHexChar(s[j])
HexDecode(s) ==
    [j \in 1..(Len(s) \div 2) |-> 16 * HexVal(s[2 * j - 1]) + HexVal(s[2 * j])]

\* binary.BigEndian.PutUint64 / PutUint32 and Uint64 / Uint32.
PutUint64(n) ==
    [j \in 1..8 |->
        IF n = MaxInt64 THEN (IF j = 1 THEN 127 ELSE 255)
        ELSE IF n = Beyond THEN 255
        ELSE IF j <= 4 THEN 0
        ELSE (n \div (256 ^ (8 - j))) % 256]
PutUint32(n) ==
    [j \in 1..4 |-> IF n = Beyond THEN 255 ELSE (n \div (256 ^ (4 - j))) % 256]
Uint64(b) ==
    IF b = PutUint64(MaxInt64) THEN MaxInt64
    ELSE IF (\E j \in 1..4 : b[j] # 0) \/ b[5] >= 128 THEN Beyond
    ELSE b[5] * 16777216 + b[6] * 65536 + b[7] * 256 + b[8]
Uint32(b) ==
    IF b[1] >= 128 THEN Beyond
    ELSE b[1] * 16777216 + b[2] * 65536 + b[3] * 256 + b[4]

\* func (irw *indexRecordWriter) writeEntry(ir *indexRecord) []byte: the
\* record's indexOffset is not written.
WriteEntry(ir) ==
    HexEncode(PutUint32(ir.dataFile)) \o <<SpaceChar>>
        \o HexEncode(PutUint64(ir.offset)) \o <<SpaceChar>>
        \o HexEncode(PutUint64(ir.size)) \o <<SpaceChar>>
        \o HexEncode(ir.key) \o <<SpaceChar>>
        \o HexEncode(PutUint64(ir.prevIndexOffset)) \o <<LfChar>>

\* new(indexRecord)
ZeroRecord ==
    [dataFile |-> 0, offset |-> 0, size |-> 0, key |-> [j \in 1..KeySize |-> 0],
     prevIndexOffset |-> 0, indexOffset |-> 0]

\* func (ir *indexRecord) decode(b []byte) error, ir a new(indexRecord): the
\* error, or the record with the fields the buffer gives; the bytes between
\* the fields are not looked at.
Decode(b) ==
    IF Len(b) # IndexRecordSize
    THEN [err |-> "index entry is wrong", ir |-> ZeroRecord]
    ELSE IF ~IsHex(SubSeq(b, 1, 8))
    THEN [err |-> "wrong data file", ir |-> ZeroRecord]
    ELSE IF ~IsHex(SubSeq(b, 10, 25))
    THEN [err |-> "wrong offset", ir |-> ZeroRecord]
    ELSE IF ~IsHex(SubSeq(b, 27, 42))
    THEN [err |-> "wrong size", ir |-> ZeroRecord]
    ELSE IF ~IsHex(SubSeq(b, 44, 75))
    THEN [err |-> "wrong key", ir |-> ZeroRecord]
    ELSE IF ~IsHex(SubSeq(b, 77, 92))
    THEN [err |-> "wrong previous index offset", ir |-> ZeroRecord]
    ELSE [err |-> NoErr,
          ir |-> [dataFile |-> Uint32(HexDecode(SubSeq(b, 1, 8))),
                  offset |-> Uint64(HexDecode(SubSeq(b, 10, 25))),
                  size |-> Uint64(HexDecode(SubSeq(b, 27, 42))),
                  key |-> HexDecode(SubSeq(b, 44, 75)),
                  prevIndexOffset |-> Uint64(HexDecode(SubSeq(b, 77, 92))),
                  indexOffset |-> 0]]

----------------------------------------------------------------------------
(* The storage of one table (src/table.go): the data file, the index file   *)
(* and the in-memory index, a map from keys to index records.               *)

IOError == "input/output error"
ErrEOF == "failed to read data entry: EOF"
ErrShortRead == "short read"
IndexEntryError(i, err) == "error reading index entry " \o ToString(i) \o ": " \o err

\* testRecSeparator (fromHex): LF, 62 hex characters, LF.
RecSeparator == [j \in 1..RecordSeparatorSize |->
                    IF j = 1 \/ j = RecordSeparatorSize THEN LfChar ELSE 48]
\* tab.sepBuffer after hex.Encode(tab.sepBuffer[recordSeparatorSize:], key[:]).
SepBuffer(key) ==
    [j \in 1..SepBufferSize |->
        IF j <= RecordSeparatorSize THEN RecSeparator[j]
        ELSE IF j <= RecordSeparatorSize + 2 * KeySize
        THEN HexEncode(key)[j - RecordSeparatorSize]
        ELSE LfChar]

\* file.Seek(0, io.SeekEnd): a seek to the start instead would make the next
\* write replace the head of the file.
SeekEnd_Start(f) == 0
SeekEnd(f) == Len(f)
\* file.Write(b) at position pos of which n bytes reach the file.
FileWrite(f, pos, b, n) ==
    SubSeq(f, 1, pos) \o SubSeq(b, 1, n) \o SubSeq(f, pos + n + 1, Len(f))
\* file.ReadAt(buf, off) with len(buf) = size: the bytes read and io.EOF when
\* the file ends before the buffer is full.
ReadAt(f, size, off) ==
    LET n == Max(0, Min(size, Len(f) - off))
    IN [n |-> n, bytes |-> SubSeq(f, off + 1, off + n),
        err |-> IF n < size THEN ErrEOF ELSE NoErr]

MapPut(m, k, v) == [x \in (DOMAIN m) \cup {k} |-> IF x = k THEN v ELSE m[x]]

\* The step of put at which the operating system fails, and the number of
\* bytes a failing write leaves in the file.
NoFault == [at |-> "none", n |-> 0]
ShortWrites(len) == {n \in {0, 1, len - 1} : n >= 0 /\ n < len}
\* The lengths of a cut index record: the short writes, and the two lengths
\* after which the head of the next record (its data file field, or its data
\* file and offset fields) fills the record width up to a field boundary.
IndexShortWrites ==
    ShortWrites(IndexRecordSize)
        \cup {IndexRecordSize - (4*2 + 1), IndexRecordSize - (4*2 + 1 + 8*2 + 1)}
PutFaults(data) ==
    {[at |-> a, n |-> 0] : a \in {"seekData", "seekIndex", "syncData", "syncIndex"}}
        \cup {[at |-> "writeData", n |-> n] : n \in ShortWrites(Len(data))}
        \cup {[at |-> "writeSep", n |-> n] : n \in ShortWrites(SepBufferSize)}
        \cup {[at |-> "writeIndex", n |-> n] : n \in IndexShortWrites}

\* put that writes and syncs the index record first and the data after it.
TablePut_IndexFirst(st, key, data, fault) ==
    LET offset == SeekEnd(st.dataFile)
        indexOffset == SeekEnd(st.indexFile)
        entry == [dataFile |-> 0, offset |-> offset, size |-> Len(data),
                  key |-> key,
                  prevIndexOffset |-> IF key \in DOMAIN st.index
                                      THEN st.index[key].indexOffset ELSE MaxInt64,
                  indexOffset |-> indexOffset]
        index1 == MapPut(st.index, key, entry)
        index2 == FileWrite(st.indexFile, indexOffset, WriteEntry(entry),
                            IF fault.at = "writeIndex" THEN fault.n
                            ELSE IndexRecordSize)
        data1 == FileWrite(st.dataFile, offset, data,
                           IF fault.at = "writeData" THEN fault.n ELSE Len(data))
        data2 == FileWrite(data1, offset + Len(data), SepBuffer(key),
                           IF fault.at = "writeSep" THEN fault.n ELSE SepBufferSize)
    IN IF fault.at \in {"seekData", "seekIndex"}
       THEN [dataFile |-> st.dataFile, indexFile |-> st.indexFile,
             index |-> st.index, err |-> IOError]
       ELSE IF fault.at \in {"writeIndex", "syncIndex"}
       THEN [dataFile |-> st.dataFile, indexFile |-> index2, index |-> st.index,
             err |-> IOError]
       ELSE IF fault.at = "writeData"
       THEN [dataFile |-> data1, indexFile |-> index2, index |-> st.index,
             err |-> IOError]
       ELSE [dataFile |-> data2, indexFile |-> index2, index |-> index1,
             err |-> IF fault.at = "none" THEN NoErr ELSE IOError]

\* func (tab *table) put(key Key, data []byte) error, on the table state
\* st = [dataFile, indexFile, index], with the fault the call meets.
TablePut(st, key, data, fault) ==
    LET offset == SeekEnd(st.dataFile)
        indexOffset == SeekEnd(st.indexFile)
        same(err) == [dataFile |-> st.dataFile, indexFile |-> st.indexFile,
                      index |-> st.index, err |-> err]
        data1 == FileWrite(st.dataFile, offset, data,
                           IF fault.at = "writeData" THEN fault.n ELSE Len(data))
        data2 == FileWrite(data1, offset + Len(data), SepBuffer(key),
                           IF fault.at = "writeSep" THEN fault.n ELSE SepBufferSize)
        entry == IF key \notin DOMAIN st.index
                 THEN [dataFile |-> 0, offset |-> offset, size |-> Len(data),
                       key |-> key, prevIndexOffset |-> MaxInt64,
                       indexOffset |-> indexOffset]
                 ELSE [st.index[key] EXCEPT !.offset = offset,
                                            !.size = Len(data),
                                            !.prevIndexOffset = st.index[key].indexOffset,
                                            !.indexOffset = indexOffset]
        index1 == MapPut(st.index, key, entry)
        irBuf == WriteEntry(entry)
        index2 == FileWrite(st.indexFile, indexOffset, irBuf,
                            IF fault.at = "writeIndex" THEN fault.n ELSE Len(irBuf))
    IN IF fault.at \in {"seekData", "seekIndex"} THEN same(IOError)
       ELSE IF fault.at = "writeData"
       THEN [dataFile |-> data1, indexFile |-> st.indexFile, index |-> st.index,
             err |-> IOError]
       ELSE IF fault.at = "writeSep"
       THEN [dataFile |-> data2, indexFile |-> st.indexFile, index |-> st.index,
             err |-> IOError]
       ELSE IF fault.at = "syncData"
       THEN [dataFile |-> data2, indexFile |-> st.indexFile, index |-> st.index,
             err |-> "error fsyncing data table"]
       ELSE IF fault.at = "writeIndex"
       THEN [dataFile |-> data2, indexFile |-> index2, index |-> index1,
             err |-> "error while writing index record"]
       ELSE IF fault.at = "syncIndex"
       THEN [dataFile |-> data2, indexFile |-> index2, index |-> index1,
             err |-> "error fsyncing index table"]
       ELSE [dataFile |-> data2, indexFile |-> index2, index |-> index1,
             err |-> NoErr]

\* readEntry that fills the whole buffer, whatever entry.size.
ReadEntry_WholeBuf(dataF, entry, size) == ReadAt(dataF, size, entry.offset)

\* readEntry that reads at the start of the data file, whatever entry.offset.
ReadEntry_OffsetZero(dataF, entry, size) ==
    ReadAt(dataF, IF size > entry.size THEN entry.size ELSE size, 0)

\* func (tab *table) readEntry(entry *indexRecord, buf []byte) (int, error),
\* with len(buf) = size: the bytes read into the head of buf.
ReadEntry(dataF, entry, size) ==
    ReadAt(dataF, IF size > entry.size THEN entry.size ELSE size, entry.offset)

\* func (tab *table) read(key Key, buf []byte) (int, error): n, the error and
\* the buffer after the call.
TableRead(st, key, b) ==
    IF key \notin DOMAIN st.index
    THEN [n |-> 0, err |-> ErrKeyNotFound, buf |-> b]
    ELSE LET r == ReadEntry(st.dataFile, st.index[key], Len(b))
         IN [n |-> r.n, err |-> r.err,
             buf |-> r.bytes \o SubSeq(b, r.n + 1, Len(b))]

\* func (tab *table) get(key Key) ([]byte, error)
TableGet(st, key) ==
    IF key \notin DOMAIN st.index
    THEN [val |-> <<>>, isNil |-> TRUE, err |-> ErrKeyNotFound]
    ELSE LET r == ReadEntry(st.dataFile, st.index[key], st.index[key].size)
         IN IF r.err # NoErr THEN [val |-> <<>>, isNil |-> TRUE, err |-> r.err]
            ELSE IF r.n # st.index[key].size
            THEN [val |-> <<>>, isNil |-> TRUE, err |-> ErrShortRead]
            ELSE [val |-> r.bytes, isNil |-> FALSE, err |-> NoErr]

\* func (tab *table) exists(key Key) bool and count() int
TableExists(st, key) == key \in DOMAIN st.index
TableCount(st) == Cardinality(DOMAIN st.index)

\* var n int: declared in the scan loop of newTable and never assigned.
ScanRead == 0

\* The scan loop of newTable from block i of the index file on: each decoded
\* record replaces the entry of its key; the loop ends at the first block
\* that is not whole, and a block that does not decode fails the open.
RECURSIVE NewTableScan_FirstWins(_, _, _, _)
NewTableScan_FirstWins(indexF, i, indexOffset, m) ==
    IF (i + 1) * IndexRecordSize > Len(indexF) THEN [index |-> m, err |-> NoErr]
    ELSE LET d == Decode(SubSeq(indexF, i * IndexRecordSize + 1,
                                (i + 1) * IndexRecordSize))
             entry == [d.ir EXCEPT !.indexOffset = indexOffset]
         IN IF d.err # NoErr
            THEN [index |-> <<>>, err |-> IndexEntryError(i, d.err)]
            ELSE NewTableScan_FirstWins(indexF, i + 1, indexOffset + ScanRead,
                     IF entry.key \in DOMAIN m THEN m
                     ELSE MapPut(m, entry.key, entry))
\* The scan that passes over a block that does not decode.
RECURSIVE NewTableScan_SkipBad(_, _, _, _)
NewTableScan_SkipBad(indexF, i, indexOffset, m) ==
    IF (i + 1) * IndexRecordSize > Len(indexF) THEN [index |-> m, err |-> NoErr]
    ELSE LET d == Decode(SubSeq(indexF, i * IndexRecordSize + 1,
                                (i + 1) * IndexRecordSize))
             entry == [d.ir EXCEPT !.indexOffset = indexOffset]
         IN NewTableScan_SkipBad(indexF, i + 1, indexOffset + ScanRead,
                IF d.err # NoErr THEN m ELSE MapPut(m, entry.key, entry))
\* The scan that takes a last block shorter than a record for an error.
RECURSIVE NewTableScan_StrictTail(_, _, _, _)
NewTableScan_StrictTail(indexF, i, indexOffset, m) ==
    IF i * IndexRecordSize = Len(indexF) THEN [index |-> m, err |-> NoErr]
    ELSE IF (i + 1) * IndexRecordSize > Len(indexF)
    THEN [index |-> <<>>, err |-> IndexEntryError(i, "unexpected EOF")]
    ELSE LET d == Decode(SubSeq(indexF, i * IndexRecordSize + 1,
                                (i + 1) * IndexRecordSize))
             entry == [d.ir EXCEPT !.indexOffset = indexOffset]
         IN IF d.err # NoErr
            THEN [index |-> <<>>, err |-> IndexEntryError(i, d.err)]
            ELSE NewTableScan_StrictTail(indexF, i + 1, indexOffset + ScanRead,
                                         MapPut(m, entry.key, entry))
RECURSIVE NewTableScan(_, _, _, _)
NewTableScan(indexF, i, indexOffset, m) ==
    IF (i + 1) * IndexRecordSize > Len(indexF) THEN [index |-> m, err |-> NoErr]
    ELSE LET d == Decode(SubSeq(indexF, i * IndexRecordSize + 1,
                                (i + 1) * IndexRecordSize))
             entry == [d.ir EXCEPT !.indexOffset = indexOffset]
         IN IF d.err # NoErr
            THEN [index |-> <<>>, err |-> IndexEntryError(i, d.err)]
            ELSE NewTableScan(indexF, i + 1, indexOffset + ScanRead,
                              MapPut(m, entry.key, entry))

\* func newTable(rootDir, tableName, recSep) (*table, error): the files are
\* opened with O_RDWR|O_CREATE and keep their content.
NewTableOpen(dataF, indexF) == NewTableScan(indexF, 0, 0, <<>>)

\* The full-width blocks of the index file f, decoded as the scan of newTable
\* cuts them, and the records of those that decode.
ScanBlocks(f) ==
    {Decode(SubSeq(f, (i - 1) * IndexRecordSize + 1, i * IndexRecordSize)) :
        i \in 1..(Len(f) \div IndexRecordSize)}
ScanRecords(f) == {d.ir : d \in {x \in ScanBlocks(f) : x.err = NoErr}}

\* rangeRevEntries(key, visit): the records visit is called with, newest
\* first, from the entry of the in-memory index along prevIndexOffset through
\* the index file until the record without a previous one.
RECURSIVE RevWalk(_, _, _)
RevWalk(indexF, prev, fuel) ==
    IF prev = MaxInt64 THEN [visited |-> <<>>, err |-> NoErr]
    ELSE IF fuel = 0 THEN [visited |-> <<>>, err |-> "history does not end"]
    ELSE LET r == ReadAt(indexF, IndexRecordSize, prev)
             d == Decode(r.bytes)
             rest == RevWalk(indexF, d.ir.prevIndexOffset, fuel - 1)
         IN IF r.err # NoErr THEN [visited |-> <<>>, err |-> r.err]
            ELSE IF d.err # NoErr THEN [visited |-> <<>>, err |-> d.err]
            ELSE [visited |-> <<[d.ir EXCEPT !.indexOffset = prev]>> \o rest.visited,
                  err |-> rest.err]
RangeRevEntries(st, key) ==
    IF key \notin DOMAIN st.index THEN [visited |-> <<>>, err |-> NoErr]
    ELSE LET rest == RevWalk(st.indexFile, st.index[key].prevIndexOffset,
                             Len(st.indexFile) \div IndexRecordSize + 1)
         IN [visited |-> <<st.index[key]>> \o rest.visited, err |-> rest.err]

----------------------------------------------------------------------------
(* The calls on one table, as the tests of src/table_test.go make them.     *)

\* The table of TestTableCorrectness and TestTabRangeRevEntries.
TestTable == 1
\* The lengths of the buffers given to read; a fresh buffer holds zeros.
BufLens == 0..(MaxValueLen + 1)
NewBuf(len) == [j \in 1..len |-> 0]

\* The state of table tb as the operations of the table take it.
StoreOf(tb) ==
    [dataFile |-> dataFile[tb], indexFile |-> indexFile[tb], index |-> tab[tb].index]

\* The next result of a call: op and its arguments, and what it returned.
Result(op, tb, key, err) ==
    [NoOut EXCEPT !.op = op, !.table = tb, !.key = key, !.err = err]

\* The table state and the record of the put after tab.put returned s.
Stored(tb, key, data, s) ==
    /\ dataFile' = [dataFile EXCEPT ![tb] = s.dataFile]
    /\ indexFile' = [indexFile EXCEPT ![tb] = s.indexFile]
    /\ tab' = [tab EXCEPT ![tb].index = s.index]
    /\ hist' = [hist EXCEPT ![tb] =
                    Append(@, [key |-> key, val |-> data, err |-> s.err,
                               at |-> "return",
                               offset |-> Len(dataFile[tb]),
                               indexOffset |-> Len(indexFile[tb])])]

\* The faults a put may meet: none on files that work, any on files that fail.
PutFaultsOf(io, data) == IF io THEN {NoFault} \cup PutFaults(data) ELSE {NoFault}

\* err := tab.put(key, data) on files that work (io false) or may fail.
PutWith(tb, io) ==
    /\ tab[tb].open
    /\ Len(hist[tb]) < MaxPuts
    /\ \E key \in StoreKeys, data \in Values :
        \E fault \in PutFaultsOf(io, data) :
            LET s == TablePut(StoreOf(tb), key, data, fault)
            IN /\ Stored(tb, key, data, s)
               /\ out' = Result("put", tb, key, s.err)

\* A put the operating system lets through.
TabPut(tb) ==
    /\ PutWith(tb, FALSE)
    /\ UNCHANGED <<locks, cfg, tx, pc, idx, run, bodyErr, ftx, ret, trace, handle, acc,
                   index, prepVars, db>>

\* A put on files whose seek, write or sync may fail, once in a run.
TabPutIO(tb) ==
    /\ Len(hist[tb]) < MaxIOPuts
    /\ PutWith(tb, \A i \in 1..Len(hist[tb]) : hist[tb][i].err = NoErr)
    /\ UNCHANGED <<locks, cfg, tx, pc, idx, run, bodyErr, ftx, ret, trace, handle, acc,
                   index, prepVars, db>>

\* The process stops inside tab.put(key, data), at one of the steps at which
\* a fault can stop the call: the files keep what the call wrote up to there,
\* the table object and its in-memory index are gone, nothing is returned.
Killed == "signal: killed"
TabCrash(tb) ==
    /\ tab[tb].open
    /\ Len(hist[tb]) < MaxIOPuts
    /\ \A i \in 1..Len(hist[tb]) : hist[tb][i].err = NoErr
    /\ \E key \in StoreKeys, data \in Values :
        \E fault \in PutFaults(data) :
            LET s == TablePut(StoreOf(tb), key, data, fault)
            IN /\ dataFile' = [dataFile EXCEPT ![tb] = s.dataFile]
               /\ indexFile' = [indexFile EXCEPT ![tb] = s.indexFile]
               /\ tab' = [tab EXCEPT ![tb] = [open |-> FALSE, index |-> <<>>]]
               /\ hist' = [hist EXCEPT ![tb] =
                               Append(@, [key |-> key, val |-> data, err |-> Killed,
                                          at |-> fault.at,
                                          offset |-> Len(dataFile[tb]),
                                          indexOffset |-> Len(indexFile[tb])])]
               /\ out' = Result("crash", tb, key, Killed)
    /\ UNCHANGED <<locks, cfg, tx, pc, idx, run, bodyErr, ftx, ret, trace, handle, acc,
                   index, prepVars, db>>

\* A put whose write of the index record stops short, once in a run.
TabPutCut(tb) ==
    /\ tab[tb].open
    /\ Len(hist[tb]) < MaxPuts
    /\ \A i \in 1..Len(hist[tb]) : hist[tb][i].err = NoErr
    /\ \E key \in StoreKeys, data \in Values, n \in IndexShortWrites :
        LET s == TablePut(StoreOf(tb), key, data, [at |-> "writeIndex", n |-> n])
        IN /\ Stored(tb, key, data, s)
           /\ out' = Result("put", tb, key, s.err)
    /\ UNCHANGED <<locks, cfg, tx, pc, idx, run, bodyErr, ftx, ret, trace, handle, acc,
                   index, prepVars, db>>

\* The first byte of each hex field of an index record, counted from 1.
FieldStarts ==
    {1, 4*2 + 2, 4*2 + 8*2 + 3, 4*2 + 8*2 + 8*2 + 4,
     4*2 + 8*2 + 8*2 + KeySize*2 + 5}

\* The storage damages one record of the index file of a closed table, all
\* of whose blocks decoded until then: the first byte of one of its fields
\* is no hex digit any more.
Corrupt(tb) ==
    /\ ~tab[tb].open
    /\ \A d \in ScanBlocks(indexFile[tb]) : d.err = NoErr
    /\ \E i \in 0..((Len(indexFile[tb]) \div IndexRecordSize) - 1), j \in FieldStarts :
        /\ indexFile' = [indexFile EXCEPT ![tb][i * IndexRecordSize + j] = SpaceChar]
        /\ out' = [Result("corrupt", tb, <<>>, NoErr) EXCEPT !.n = i]
    /\ UNCHANGED <<locks, cfg, tx, pc, idx, run, bodyErr, ftx, ret, trace, handle, acc,
                   index, prepVars, db, dataFile, tab, hist>>

\* The puts of tb kept in hist carry the step at which the process stopped
\* ("return" when the call returned) and the lengths of the two files when the
\* call began.

\* n, err := tab.read(key, buf), buf a fresh buffer.
TabRead(tb) ==
    /\ tab[tb].open
    /\ \E key \in StoreKeys, len \in BufLens :
        LET r == TableRead(StoreOf(tb), key, NewBuf(len))
        IN out' = [Result("read", tb, key, r.err) EXCEPT !.n = r.n, !.val = r.buf]
    /\ UNCHANGED <<locks, cfg, tx, pc, idx, run, bodyErr, ftx, ret, trace, handle, acc,
                   index, prepVars, db, dataFile, indexFile, tab, hist>>

\* data, err := tab.get(key)
TabGet(tb) ==
    /\ tab[tb].open
    /\ \E key \in StoreKeys :
        LET r == TableGet(StoreOf(tb), key)
        IN out' = [Result("get", tb, key, r.err) EXCEPT !.val = r.val,
                                                        !.isNil = r.isNil]
    /\ UNCHANGED <<locks, cfg, tx, pc, idx, run, bodyErr, ftx, ret, trace, handle, acc,
                   index, prepVars, db, dataFile, indexFile, tab, hist>>

\* tab.exists(key)
TabExists(tb) ==
    /\ tab[tb].open
    /\ \E key \in StoreKeys :
        out' = [Result("exists", tb, key, NoErr) EXCEPT
                    !.ok = TableExists(StoreOf(tb), key)]
    /\ UNCHANGED <<locks, cfg, tx, pc, idx, run, bodyErr, ftx, ret, trace, handle, acc,
                   index, prepVars, db, dataFile, indexFile, tab, hist>>

\* tab.count()
TabCount(tb) ==
    /\ tab[tb].open
    /\ out' = [Result("count", tb, <<>>, NoErr) EXCEPT !.n = TableCount(StoreOf(tb))]
    /\ UNCHANGED <<locks, cfg, tx, pc, idx, run, bodyErr, ftx, ret, trace, handle, acc,
                   index, prepVars, db, dataFile, indexFile, tab, hist>>

\* tab.rangeRevEntries(key, visit) with a visit that returns no error.
TabRange(tb) ==
    /\ tab[tb].open
    /\ \E key \in StoreKeys :
        LET r == RangeRevEntries(StoreOf(tb), key)
        IN out' = [Result("rangeRevEntries", tb, key, r.err) EXCEPT
                      !.visited = r.visited]
    /\ UNCHANGED <<locks, cfg, tx, pc, idx, run, bodyErr, ftx, ret, trace, handle, acc,
                   index, prepVars, db, dataFile, indexFile, tab, hist>>

\* tab.close(): the files are closed, the table object is dropped.
TabClose(tb) ==
    /\ tab[tb].open
    /\ tab' = [tab EXCEPT ![tb] = [open |-> FALSE, index |-> <<>>]]
    /\ out' = Result("close", tb, <<>>, NoErr)
    /\ UNCHANGED <<locks, cfg, tx, pc, idx, run, bodyErr, ftx, ret, trace, handle, acc,
                   index, prepVars, db, dataFile, indexFile, hist>>

\* tab, err = newTable(rootDir, tableName, testRecSeparator) on the files the
\* closed table left.
TabOpen(tb) ==
    /\ ~tab[tb].open
    /\ LET r == NewTableOpen(dataFile[tb], indexFile[tb])
       IN /\ tab' = [tab EXCEPT ![tb] = IF r.err = NoErr
                                        THEN [open |-> TRUE, index |-> r.index]
                                        ELSE @]
          /\ out' = Result("newTable", tb, <<>>, r.err)
    /\ UNCHANGED <<locks, cfg, tx, pc, idx, run, bodyErr, ftx, ret, trace, handle, acc,
                   index, prepVars, db, dataFile, indexFile, hist>>

----------------------------------------------------------------------------
(* The calls of one goroutine on its transaction, on tables with storage:   *)
(* Tx.Table, TxTable.Put and the fluent Put, Read, Get and Exists.          *)

\* ErrTableNotInTx(table), ErrTableNotWritableInTx(table): the error value
\* holds the table key.
KeyedErr(err, table) == err \o " " \o ToString(table)
TableErr(err, table) ==
    IF err \in {ErrTableNotInTx, ErrTableNotWritableInTx} THEN KeyedErr(err, table)
    ELSE err

\* setErr that drops the error.
SetErr_Dropped(t, err) == t

\* func (tx *Tx) setErr(err error) error
SetErr(t, err) == [t EXCEPT !.err = err]

\* The head of Tx.Exists, Tx.Read and Tx.Get without the test of tx.err.
TxAccess_NoErrCheck(t, c, table) ==
    IF t.done
    THEN Reject(NoErr)
    ELSE IF table \notin DOMAIN c.tables THEN Reject(ErrTableNotInTx) ELSE Proceed

\* The head of the fluent calls without the test of tx.done.
TxAccess_NoDoneCheck(t, c, table) ==
    IF t.err # "nil"
    THEN [access |-> FALSE, err |-> "nil"]
    ELSE IF table \notin DOMAIN c.tables
    THEN [access |-> FALSE, err |-> "table not in tx"]
    ELSE [access |-> TRUE, err |-> "nil"]

\* The head of Tx.Exists, Tx.Read and Tx.Get: a done or errored tx makes the
\* call return at once; a table outside the config is an error to record.
TxAccess(t, c, table) ==
    IF t.done \/ t.err # NoErr
    THEN Reject(NoErr)
    ELSE IF table \notin DOMAIN c.tables THEN Reject(ErrTableNotInTx) ELSE Proceed

\* The Tx after a fluent call whose head returned r without table access.
Rejected(t, r, table) ==
    IF r.err = NoErr THEN t ELSE SetErr(t, KeyedErr(r.err, table))

RECURSIVE PutsOn(_)
PutsOn(S) ==
    IF S = {} THEN 0
    ELSE LET tb == CHOOSE x \in S : TRUE IN Len(hist[tb]) + PutsOn(S \ {tb})

\* The transaction works on files that do not fail, and puts values of the
\* longest length.
ChainFaults(tb, data) == PutFaultsOf(FALSE, data)
ChainValues == {v \in Values : Len(v) = MaxValueLen}

\* The loop of BeginTx over order when no other goroutine holds or waits for
\* a lock: every Lock() and RLock() returns at once.
RECURSIVE LockAll(_, _, _)
LockAll(l, order, p) ==
    IF order = <<>> THEN l
    ELSE LockAll([l EXCEPT ![Head(order).key] = BeginLockCall(Head(order), @, p)],
                 Tail(order), p)

\* The loop of EndTx over lockOrder from position k of EndTxOrder on.
RECURSIVE UnlockAll(_, _, _, _)
UnlockAll(l, order, k, p) ==
    IF k > Len(order) THEN l
    ELSE LET tc == order[EndTxOrder(Len(order))[k]]
         IN UnlockAll([l EXCEPT ![tc.key] = EndTxRelease(tc, @, p)], order, k + 1, p)

\* tx, err := db.BeginTx(txc) of a goroutine that is alone: the whole call.
BeginTxAlone(p) ==
    /\ Free(p)
    /\ \E c \in PreparedConfigs :
        /\ cfg' = [cfg EXCEPT ![p] = c]
        /\ locks' = LockAll(locks, c.lockOrder, p)
    /\ tx' = [tx EXCEPT ![p] = NewTx]
    /\ pc' = [pc EXCEPT ![p] = "begun"]
    /\ handle' = [handle EXCEPT ![p] = NoHandle]
    /\ out' = Result("BeginTx", None, <<>>, NoErr)
    /\ UNCHANGED <<idx, run, bodyErr, ftx, ret, trace, acc, index, prepVars, db, dataFile,
                   indexFile, tab, hist>>

\* err := db.EndTx(&tx) of a goroutine that is alone: the whole call.
EndTxAlone(p) ==
    /\ AtRest(p)
    /\ IF EndTxIsDone(tx[p])
       THEN /\ out' = Result("EndTx", None, <<>>, ErrAlreadyDone)
            /\ UNCHANGED <<locks, tx, pc>>
       ELSE /\ locks' = UnlockAll(locks, cfg[p].lockOrder, 1, p)
            /\ tx' = [tx EXCEPT ![p].done = TRUE]
            /\ pc' = [pc EXCEPT ![p] = "ended"]
            /\ out' = Result("EndTx", None, <<>>, NoErr)
    /\ UNCHANGED <<cfg, idx, run, bodyErr, ftx, ret, trace, handle, acc, index, prepVars, db,
                   dataFile, indexFile, tab, hist>>

\* tt, err := tx.Table(key); the goroutine keeps tt if err is nil.
TxTableOf(p) ==
    /\ AtRest(p)
    /\ \E key \in TableKeys :
        LET r == Table(tx[p], cfg[p], key)
        IN /\ handle' = [handle EXCEPT ![p] = IF r.err = NoErr THEN r.tt ELSE @]
           /\ out' = [Result("Table", key, <<>>, TableErr(r.err, key)) EXCEPT
                         !.ok = (r.err = NoErr)]
    /\ UNCHANGED <<locks, cfg, tx, pc, idx, run, bodyErr, ftx, ret, trace, acc, index,
                   prepVars, db, dataFile, indexFile, tab, hist>>

\* err := tt.Put(key, data) on the TxTable the goroutine kept.
HandlePut(p) ==
    /\ AtRest(p)
    /\ handle[p] # NoHandle
    /\ \E key \in StoreKeys, data \in ChainValues :
        LET tb == handle[p].tab
            r == TxTablePut(handle[p], tx[p])
        IN IF r.access
           THEN /\ PutsOn(Tables) < MaxChainPuts
                /\ \E fault \in ChainFaults(tb, data) :
                    LET s == TablePut(StoreOf(tb), key, data, fault)
                    IN /\ Stored(tb, key, data, s)
                       /\ out' = Result("Put", tb, <<>>, s.err)
           ELSE /\ out' = Result("Put", tb, <<>>, TableErr(r.err, tb))
                /\ UNCHANGED <<dataFile, indexFile, tab, hist>>
    /\ UNCHANGED <<locks, cfg, tx, pc, idx, run, bodyErr, ftx, ret, trace, handle, acc,
                   index, prepVars, db>>

\* tx.Put(table, key, value); the result kept is tx.Err() after the call.
FluentPut(p) ==
    /\ AtRest(p)
    /\ \E table \in TableKeys, key \in StoreKeys, value \in ChainValues :
        LET r == TxPut(tx[p], cfg[p], table)
        IN IF r.access
           THEN /\ PutsOn(Tables) < MaxChainPuts
                /\ \E fault \in ChainFaults(table, value) :
                    LET s == TablePut(StoreOf(table), key, value, fault)
                        t == IF s.err # NoErr THEN SetErr(tx[p], s.err) ELSE tx[p]
                    IN /\ Stored(table, key, value, s)
                       /\ tx' = [tx EXCEPT ![p] = t]
                       /\ out' = Result("Tx.Put", table, <<>>, t.err)
           ELSE /\ tx' = [tx EXCEPT ![p] = Rejected(@, r, table)]
                /\ out' = Result("Tx.Put", table, <<>>, Rejected(tx[p], r, table).err)
                /\ UNCHANGED <<dataFile, indexFile, tab, hist>>
    /\ UNCHANGED <<locks, cfg, pc, idx, run, bodyErr, ftx, ret, trace, handle, acc,
                   index, prepVars, db>>

\* tx.Read(table, key, &value), value a fresh slice of out.n zeros; out.val is
\* the slice after the call.
FluentRead(p) ==
    /\ AtRest(p)
    /\ \E table \in TableKeys, key \in StoreKeys, len \in BufLens :
        LET r == TxAccess(tx[p], cfg[p], table)
            rd == TableRead(StoreOf(table), key, NewBuf(len))
            t == IF ~r.access THEN Rejected(tx[p], r, table)
                 ELSE IF rd.err # NoErr THEN SetErr(tx[p], rd.err)
                 ELSE tx[p]
        IN /\ tx' = [tx EXCEPT ![p] = t]
           /\ out' = [Result("Tx.Read", table, <<>>, t.err) EXCEPT
                         !.n = len,
                         !.val = IF ~r.access THEN NewBuf(len)
                                 ELSE IF rd.err # NoErr THEN rd.buf
                                 ELSE SubSeq(rd.buf, 1, rd.n)]
    /\ UNCHANGED <<locks, cfg, pc, idx, run, bodyErr, ftx, ret, trace, handle, acc,
                   index, prepVars, db, dataFile, indexFile, tab, hist>>

\* v := tx.Get(table, key)
FluentGet(p) ==
    /\ AtRest(p)
    /\ \E table \in TableKeys, key \in StoreKeys :
        LET r == TxAccess(tx[p], cfg[p], table)
            g == TableGet(StoreOf(table), key)
            t == IF ~r.access THEN Rejected(tx[p], r, table)
                 ELSE IF g.err # NoErr THEN SetErr(tx[p], g.err)
                 ELSE tx[p]
        IN /\ tx' = [tx EXCEPT ![p] = t]
           /\ out' = [Result("Tx.Get", table, <<>>, t.err) EXCEPT
                         !.val = IF r.access THEN g.val ELSE <<>>,
                         !.isNil = IF r.access THEN g.isNil ELSE TRUE]
    /\ UNCHANGED <<locks, cfg, pc, idx, run, bodyErr, ftx, ret, trace, handle, acc,
                   index, prepVars, db, dataFile, indexFile, tab, hist>>

\* ok := tx.Exists(table, key)
FluentExists(p) ==
    /\ AtRest(p)
    /\ \E table \in TableKeys, key \in StoreKeys :
        LET r == TxAccess(tx[p], cfg[p], table)
            t == IF ~r.access THEN Rejected(tx[p], r, table) ELSE tx[p]
        IN /\ tx' = [tx EXCEPT ![p] = t]
           /\ out' = [Result("Tx.Exists", table, <<>>, t.err) EXCEPT
                         !.ok = IF r.access THEN TableExists(StoreOf(table), key)
                                ELSE FALSE]
    /\ UNCHANGED <<locks, cfg, pc, idx, run, bodyErr, ftx, ret, trace, handle, acc,
                   index, prepVars, db, dataFile, indexFile, tab, hist>>

----------------------------------------------------------------------------
(* Spec: goroutines that begin and end transactions with BeginTx / EndTx.   *)

Next ==
    \E p \in Threads :
        \/ BeginTx(p)
        \/ LockStep(p)
        \/ WakeWriterStep(p)
        \/ WakeReaderStep(p)
        \/ EndTx(p)
        \/ UnlockStep(p)

Spec == Init /\ [][Next]_vars

(* SpecOps: goroutines that also use the tables of their transactions       *)
(* through table handles, before and after EndTx.                           *)

NextOps ==
    \E p \in OpThreads :
        \/ BeginTx(p)
        \/ LockStep(p)
        \/ WakeWriterStep(p)
        \/ WakeReaderStep(p)
        \/ EndTx(p)
        \/ UnlockStep(p)
        \/ CallTable(p)
        \/ CallTxTable(p)
        \/ TableReturn(p)

SpecOps == Init /\ [][NextOps]_vars

(* SpecFluent: goroutines that put through the fluent Tx.Put.               *)

NextFluent ==
    \E p \in OpThreads :
        \/ BeginTx(p)
        \/ LockStep(p)
        \/ WakeWriterStep(p)
        \/ WakeReaderStep(p)
        \/ EndTx(p)
        \/ UnlockStep(p)
        \/ CallTxPut(p)
        \/ TableReturn(p)

SpecFluent == Init /\ [][NextFluent]_vars

(* SpecPrep: calls of PrepareTx with every pair of key lists.               *)

\* txc, err := db.PrepareTx(WithReadTables(r...), WithWriteTables(w...))
\* PrepareTx that holds the lock of every table it names while it runs.
CallPrepareTx_LocksTables ==
    /\ \E r \in KeyLists, w \in KeyLists :
        /\ \A t \in Tables :
              (\E k \in DOMAIN r : r[k] = t) \/ (\E k \in DOMAIN w : w[k] = t)
                  => locks[t].w = None /\ locks[t].r = {}
        /\ prepIn' = [called |-> TRUE, readTables |-> r, writeTables |-> w,
                      exclusive |-> {t \in Tables : locks[t].w # None}]
        /\ prepOut' = PrepareTx(r, w)
    /\ UNCHANGED <<locks, cfg, tx, pc, idx, run, bodyErr, ftx, ret, trace, handle,
                   acc, index, storeVars>>

CallPrepareTx ==
    /\ \E r \in KeyLists, w \in KeyLists :
        /\ prepIn' = [called |-> TRUE, readTables |-> r, writeTables |-> w,
                      exclusive |-> {t \in Tables : locks[t].w # None}]
        /\ prepOut' = PrepareTx(r, w)
    /\ UNCHANGED <<locks, cfg, tx, pc, idx, run, bodyErr, ftx, ret, trace, handle,
                   acc, index, storeVars>>

NextPrep == CallPrepareTx

SpecPrep == Init /\ [][NextPrep]_vars

\* One call of PrepareTx, made at any moment while the transactions of two
\* other threads begin and end; the run is followed until the call returns.
NextPrepLocks ==
    /\ ~prepIn.called
    /\ \/ \E p \in OpThreads :
             \/ BeginTx(p)
             \/ LockStep(p)
             \/ WakeWriterStep(p)
             \/ WakeReaderStep(p)
             \/ EndTx(p)
             \/ UnlockStep(p)
       \/ CallPrepareTx

SpecPrepLocks == Init /\ [][NextPrepLocks]_vars

----------------------------------------------------------------------------
(* The codec alone: writeEntry of a record and decode of what it wrote.     *)

\* The integers of the records given to the codec: up to NumCodecDigits in
\* each of the three low bytes, with and without a one in the lowest.
NumCodecDigits == 2
CodecInts ==
    {d * (256 ^ k) + e : k \in 0..2, d \in 0..NumCodecDigits, e \in 0..1}
         \cup {255, 65535, 16777215}
\* Their keys: the keys of the tables and one whose bytes all have a letter
\* among their hex digits.
CodecKeys == StoreKeys \cup {[j \in 1..KeySize |-> 255 - j]}
CodecRecords ==
    [dataFile : {0, 1}, offset : CodecInts, size : CodecInts, key : CodecKeys,
     prevIndexOffset : {0, IndexRecordSize, MaxInt64},
     indexOffset : {IndexRecordSize}]

\* buf := irw.writeEntry(r); err := new(indexRecord).decode(buf), once in a
\* run; the result keeps buf, r and the decoded record.
CodecCall ==
    /\ out = NoOut
    /\ \E r \in CodecRecords :
        LET b == WriteEntry(r)
            d == Decode(b)
        IN out' = [Result("decode", None, r.key, d.err) EXCEPT
                      !.val = b, !.visited = <<r, d.ir>>]
    /\ UNCHANGED <<locks, cfg, tx, pc, idx, run, bodyErr, ftx, ret, trace, handle, acc,
                   index, prepVars, dataFile, indexFile, tab, hist, db>>

(* SpecCodec: the round trips of the records of CodecRecords.               *)
NextCodec == CodecCall

SpecCodec == Init /\ [][NextCodec]_vars

----------------------------------------------------------------------------
(* The error values of the package and errors.Is on them.  An error value   *)
(* is its dynamic type and the value of that type: the table key of         *)
(* ErrTableNotInTx and ErrTableNotWritableInTx, the key of ErrKeyNotFound,  *)
(* the message of an error made by errors.New or fmt.Errorf.                *)

ErrorOf(type, table, key, msg) ==
    [type |-> type, table |-> table, key |-> key, msg |-> msg]

\* The error values a call of the package returns, and ErrKeyNotFound{}, the
\* target the readers of TestRandomRW match against.
ErrorValues ==
    {ErrorOf("*errors.errorString", None, <<>>, m) :
        m \in {ErrTxDone, ErrAlreadyDone, IOError}}
        \cup {ErrorOf("ErrTableNotInTx", t, <<>>, "") : t \in TableKeys}
        \cup {ErrorOf("ErrTableNotWritableInTx", t, <<>>, "") : t \in TableKeys}
        \cup {ErrorOf("ErrKeyNotFound", None, k, "") :
                  k \in StoreKeys \cup {[j \in 1..KeySize |-> 0]}}

\* func (err ErrTableNotInTx) Is(target error) bool
ErrTableNotInTxIs(err, target) == target.type = "ErrKeyNotFound"

\* func (err ErrKeyNotFound) Is(target error) bool
ErrKeyNotFoundIs(err, target) == target.type = "ErrKeyNotFound"

\* errors.Is(err, target) on an error that wraps none: err == target, or the
\* Is method of err, if its type has one, reports a match.
ErrorsIs(err, target) ==
    \/ err = target
    \/ err.type = "ErrTableNotInTx" /\ ErrTableNotInTxIs(err, target)
    \/ err.type = "ErrKeyNotFound" /\ ErrKeyNotFoundIs(err, target)

\* ok := errors.Is(err, target), once in a run; the result keeps err and
\* target.
ErrorsIsCall ==
    /\ out = NoOut
    /\ \E err \in ErrorValues, target \in ErrorValues :
        out' = [NoOut EXCEPT !.op = "errors.Is",
                             !.visited = <<err, target>>,
                             !.ok = ErrorsIs(err, target)]
    /\ UNCHANGED <<locks, cfg, tx, pc, idx, run, bodyErr, ftx, ret, trace, handle, acc,
                   index, prepVars, dataFile, indexFile, tab, hist, db>>

(* SpecErrors: errors.Is over the error values of the package.              *)
NextErrors == ErrorsIsCall

SpecErrors == Init /\ [][NextErrors]_vars

----------------------------------------------------------------------------
(* NewDB and DB.Close over the tables of the database, in the order of      *)
(* cfg.tables (NewDB) and in the order the map db.tables yields (Close).    *)

\* The call of the operating system that fails in NewDB: none, os.Stat or
\* os.MkdirAll of the root directory, or os.OpenFile of the data file or of
\* the index file of one table.
NewDBFaults ==
    {[at |-> a, table |-> None] : a \in {"none", "rootDir"}}
        \cup {[at |-> a, table |-> t] : a \in {"openData", "openIndex"}, t \in Tables}

\* newTable with the fault it meets: the index or the error, and the files it
\* has opened and neither closed nor handed to a table when it returns. The
\* return on an index entry that does not decode closes neither file.
NewTableWith(dataF, indexF, at) ==
    IF at \in {"openData", "openIndex"}
    THEN [index |-> <<>>, err |-> IOError, left |-> {}]
    ELSE LET r == NewTableOpen(dataF, indexF)
         IN [index |-> r.index, err |-> r.err,
             left |-> IF r.err # NoErr THEN {"data", "index"} ELSE {}]

\* The loop of NewDB from table i on, tables being the indexes of the tables
\* opened so far: the first newTable that fails ends it, the tables opened
\* before are closed and none is returned.
RECURSIVE NewDBLoop(_, _, _)
NewDBLoop(i, fault, tables) ==
    IF i > NumTables
    THEN [err |-> NoErr, failed |-> None, tables |-> tables, left |-> {}]
    ELSE LET r == NewTableWith(dataFile[i], indexFile[i],
                               IF fault.table = i THEN fault.at ELSE "none")
         IN IF r.err # NoErr
            THEN [err |-> r.err, failed |-> i, tables |-> <<>>,
                  left |-> {<<i, f>> : f \in r.left}]
            ELSE NewDBLoop(i + 1, fault, Append(tables, r.index))

\* db, err := NewDB(WithRootDir(dir), WithTables(1, ..., NumTables)) while no
\* DB is open on the directory.
NewDB ==
    /\ db.state # "open"
    /\ \E fault \in NewDBFaults :
        LET r == IF fault.at = "rootDir"
                 THEN [err |-> IOError, failed |-> None, tables |-> <<>>, left |-> {}]
                 ELSE NewDBLoop(1, fault, <<>>)
        IN /\ tab' = [t \in Tables |->
                        IF r.err = NoErr THEN [open |-> TRUE, index |-> r.tables[t]]
                        ELSE [open |-> FALSE, index |-> <<>>]]
           /\ db' = [state |-> IF r.err = NoErr THEN "open" ELSE "none",
                     leaked |-> db.leaked \cup r.left]
           /\ out' = Result("NewDB", r.failed, <<>>, r.err)
    /\ UNCHANGED <<locks, cfg, tx, pc, idx, run, bodyErr, ftx, ret, trace, handle, acc,
                   index, prepVars, dataFile, indexFile, hist>>

\* What Close of the files of table t returns: nothing, or the error of the
\* data file, of the index file, or of both.
CloseFaults == {"none", "data", "index", "both"}
CloseError(t, f) == "close " \o f \o " " \o ToString(t)

\* func (tab *table) close() error, with the fault it meets.
TableClose(t, fault) ==
    IF fault \in {"data", "both"} THEN CloseError(t, "data")
    ELSE IF fault = "index" THEN CloseError(t, "index")
    ELSE NoErr

\* The orders in which range db.tables can yield the tables.
TableOrders ==
    {o \in [1..NumTables -> Tables] : \A i, j \in 1..NumTables : o[i] = o[j] => i = j}

\* The loop of DB.Close from the i-th table of order on: firstErr takes the
\* error of a close only when it already holds an error.
RECURSIVE DBCloseLoop(_, _, _, _)
DBCloseLoop(order, faults, i, firstErr) ==
    IF i > Len(order) THEN firstErr
    ELSE LET err == TableClose(order[i], faults[order[i]])
         IN DBCloseLoop(order, faults, i + 1,
                        IF firstErr # NoErr THEN err ELSE firstErr)

\* err := db.Close(); the result keeps what each tab.close() returned, in the
\* order of the calls.
DBClose ==
    /\ db.state \in {"open", "closed"}
    /\ IF db.state = "closed"
       THEN /\ out' = Result("Close", None, <<>>, "already closed")
            /\ UNCHANGED <<tab, db>>
       ELSE \E order \in TableOrders, faults \in [Tables -> CloseFaults] :
            /\ tab' = [t \in Tables |-> [open |-> FALSE, index |-> <<>>]]
            /\ db' = [db EXCEPT !.state = "closed"]
            /\ out' = [Result("Close", None, <<>>,
                              DBCloseLoop(order, faults, 1, NoErr))
                       EXCEPT !.visited =
                           [i \in 1..NumTables |->
                               [table |-> order[i],
                                err |-> TableClose(order[i], faults[order[i]])]]]
    /\ UNCHANGED <<locks, cfg, tx, pc, idx, run, bodyErr, ftx, ret, trace, handle, acc,
                   index, prepVars, dataFile, indexFile, hist>>

\* A put on table tb of the open database, on files that work.
DBPut(tb) ==
    /\ db.state = "open"
    /\ PutsOn(Tables) < MaxChainPuts
    /\ PutWith(tb, FALSE)
    /\ UNCHANGED <<locks, cfg, tx, pc, idx, run, bodyErr, ftx, ret, trace, handle, acc,
                   index, prepVars, db>>

(* SpecDB: the database opened, written, closed and opened again, on files  *)
(* that the storage may damage while it is closed.                          *)
NextDB ==
    \/ NewDB
    \/ DBClose
    \/ \E tb \in Tables : DBPut(tb)
    \/ \E tb \in Tables : Corrupt(tb)

SpecDB == Init /\ [][NextDB]_vars

(* SpecTable: the calls on one table, every put of which succeeds.          *)
NextTable ==
    \/ TabPut(TestTable)
    \/ TabRead(TestTable)
    \/ TabGet(TestTable)
    \/ TabExists(TestTable)
    \/ TabCount(TestTable)
    \/ TabRange(TestTable)
    \/ TabClose(TestTable)
    \/ TabOpen(TestTable)

SpecTable == Init /\ [][NextTable]_vars

(* SpecIO: the same table on files whose operations may fail.               *)
NextIO ==
    \/ TabPutIO(TestTable)
    \/ TabCrash(TestTable)
    \/ TabRead(TestTable)
    \/ TabGet(TestTable)
    \/ TabExists(TestTable)
    \/ TabCount(TestTable)
    \/ TabClose(TestTable)
    \/ TabOpen(TestTable)

SpecIO == Init /\ [][NextIO]_vars

(* SpecScan: newTable on index files with a cut record in the middle or a    *)
(* damaged record.                                                          *)
NextScan ==
    \/ TabPut(TestTable)
    \/ TabPutCut(TestTable)
    \/ Corrupt(TestTable)
    \/ TabClose(TestTable)
    \/ TabOpen(TestTable)

SpecScan == Init /\ [][NextScan]_vars

(* SpecChain: one goroutine, its transactions and its calls on the tables.  *)
ChainThread == 1

NextChain ==
    \/ BeginTxAlone(ChainThread)
    \/ EndTxAlone(ChainThread)
    \/ FluentPut(ChainThread)
    \/ FluentRead(ChainThread)
    \/ FluentGet(ChainThread)
    \/ FluentExists(ChainThread)

SpecChain == Init /\ [][NextChain]_vars

(* SpecHandle: one goroutine, its transactions, the table handles it gets   *)
(* from Tx.Table and its puts.                                              *)
NextHandle ==
    \/ BeginTxAlone(ChainThread)
    \/ EndTxAlone(ChainThread)
    \/ TxTableOf(ChainThread)
    \/ HandlePut(ChainThread)
    \/ FluentPut(ChainThread)
    \/ FluentExists(ChainThread)

SpecHandle == Init /\ [][NextHandle]_vars

(* SpecRun: goroutines that run their transactions with RunTx.              *)

NextRun ==
    \E p \in Threads :
        \/ RunTx(p)
        \/ LockStep(p)
        \/ WakeWriterStep(p)
        \/ WakeReaderStep(p)
        \/ \E err \in BodyErrors : RunTxAfterBody(p, err)
        \/ UnlockStep(p)

SpecRun == Init /\ [][NextRun]_vars

(* SpecRunEnd: two goroutines that run their transactions with RunTx, with  *)
(* bodies that may call EndTx on the Tx they are given.                     *)
NextRunEnd ==
    \E p \in OpThreads :
        \/ RunTx(p)
        \/ LockStep(p)
        \/ WakeWriterStep(p)
        \/ WakeReaderStep(p)
        \/ BodyEndTx(p)
        \/ BodyUnlockStep(p)
        \/ \E err \in BodyErrors : RunTxAfterBody(p, err)
        \/ UnlockHeldStep(p)
        \/ UnlockUnheldStep(p)

SpecRunEnd == Init /\ [][NextRunEnd]_vars

----------------------------------------------------------------------------
(* What a transaction holds, read off the thread's position in BeginTx and  *)
(* EndTx (not off the state of the locks).                                  *)

Begun(p) == pc[p] = "begun"
InTx(p, t) == t \in DOMAIN cfg[p].tables
Writable(p, t) == InTx(p, t) /\ cfg[p].tables[t].writable

\* EndTx of p has already released table t.
Released(p, t) ==
    \E k \in 1..Len(trace[p]) :
        trace[p][k][2] = t /\ trace[p][k][1] \in {"Unlock", "RUnlock"}

\* From the return of BeginTx until EndTx releases t, the transaction holds t.
HoldsTable(p, t) ==
    /\ InTx(p, t)
    /\ \/ Begun(p)
       \/ pc[p] = "unlocking" /\ ~Released(p, t)

\* C1 (writer exclusion): whenever a transaction that has begun holds table t
\* as writable, no other transaction holds t, for reading or for writing, and
\* the lock of t is held exclusively by that transaction.
C1_WriterExclusion ==
    \A p \in Threads, t \in Tables :
        (HoldsTable(p, t) /\ Writable(p, t)) =>
            /\ \A q \in Threads \ {p} : ~HoldsTable(q, t)
            /\ locks[t].w = p
            /\ locks[t].r = {}

\* A writer has begun on t while another thread is blocked in BeginTx on t.
C1_Witness ==
    \E p \in Threads, q \in Threads, t \in Tables :
        /\ p # q
        /\ Begun(p) /\ Writable(p, t)
        /\ pc[q] = "blocked" /\ CurTc(q).key = t

----------------------------------------------------------------------------
(* The wait-for relation between the threads inside BeginTx.                *)

\* p is inside a lock call that has not been granted.
Blocked(p) == pc[p] = "blocked" /\ ~Holds(locks[CurTc(p).key], p)

\* Blocked p cannot go on before q acts: q holds the lock p asked for, or p
\* asked for a shared lock and q is a writer blocked on the same lock (the
\* pending Lock keeps new readers out).
WaitsFor(p, q) ==
    /\ p # q
    /\ Blocked(p)
    /\ LET l == locks[CurTc(p).key]
       IN \/ l.w = q
          \/ q \in l.r
          \/ ~CurTc(p).writable /\ q \in l.ww

\* The threads reachable from the set S along WaitsFor in at most n steps.
RECURSIVE WaitReach(_, _)
WaitReach(S, n) ==
    IF n = 0 THEN S
    ELSE WaitReach(S \cup {q \in Threads : \E m \in S : WaitsFor(m, q)}, n - 1)

WaitsForPlus(p) == WaitReach({q \in Threads : WaitsFor(p, q)}, NumThreads)

\* C2 (deadlock freedom): the wait-for relation of the threads blocked in
\* BeginTx has no cycle, so no set of transactions waits on one another; and a
\* blocked thread that waits for nobody can take its lock.
C2_NoCircularWait ==
    /\ \A p \in Threads : p \notin WaitsForPlus(p)
    /\ \A p \in Threads :
         (Blocked(p) /\ \A q \in Threads : ~WaitsFor(p, q)) =>
             ENABLED WakeWriterStep(p)

\* The writer-preferring case: a reader blocked behind a writer that is itself
\* blocked behind a reader that holds the lock.
C2_Witness ==
    \E p \in Threads, q \in Threads, r \in Threads :
        /\ p # q /\ q # r /\ p # r
        /\ WaitsFor(p, q) /\ ~CurTc(p).writable
        /\ Blocked(q) /\ CurTc(q).key = CurTc(p).key
        /\ WaitsFor(q, r)
        /\ r \in locks[CurTc(p).key].r

----------------------------------------------------------------------------
\* The position of table t in the lock order of config c.
OrderPos(c, t) == CHOOSE k \in 1..Len(c.lockOrder) : c.lockOrder[k].key = t

\* C4 (lock ordering): the lock order of every config lists each of its
\* tables once, in ascending order of the table keys; hence two configs that
\* both name tables a and b lock them in the same relative order.
C4_LockOrdering ==
    /\ \A p \in Threads :
         LET lo == cfg[p].lockOrder IN
         /\ {lo[k].key : k \in 1..Len(lo)} = DOMAIN cfg[p].tables
         /\ Len(lo) = Cardinality(DOMAIN cfg[p].tables)
         /\ \A k \in 1..Len(lo) : lo[k] = cfg[p].tables[lo[k].key]
         /\ \A j \in 1..Len(lo), k \in 1..Len(lo) : j < k => lo[j].key < lo[k].key
    /\ \A p \in Threads, q \in Threads, a \in Tables, b \in Tables :
         (a # b /\ InTx(p, a) /\ InTx(p, b) /\ InTx(q, a) /\ InTx(q, b)) =>
             ((OrderPos(cfg[p], a) < OrderPos(cfg[p], b))
                 <=> (OrderPos(cfg[q], a) < OrderPos(cfg[q], b)))

\* Two transactions whose configs name the same two tables with a different
\* read/write split.
C4_Witness ==
    \E p \in Threads, q \in Threads :
        /\ p # q
        /\ Cardinality(DOMAIN cfg[p].tables) = 2
        /\ DOMAIN cfg[p].tables = DOMAIN cfg[q].tables
        /\ \E t \in DOMAIN cfg[p].tables : Writable(p, t) /\ ~Writable(q, t)
        /\ \E t \in DOMAIN cfg[p].tables : ~Writable(p, t) /\ Writable(q, t)

----------------------------------------------------------------------------
\* The release call that undoes a lock call.
ReleaseOf(op) == IF op = "Lock" THEN "Unlock" ELSE "RUnlock"

\* C5 (acquire/release order): the lock calls of a transaction come first, in
\* ascending order of the table keys (the config's lock order), Lock() for a
\* writable table and RLock() for a read-only one; the release calls follow
\* only after the last lock call, and the k-th release undoes the k-th last
\* lock call in its mode; when EndTx has returned every lock taken is released.
C5_AcquireReleaseOrder ==
    \A p \in Threads :
        LET tr == trace[p]
            lo == cfg[p].lockOrder
            n == Len(lo)
        IN /\ Len(tr) <= 2 * n
           /\ \A k \in 1..Len(tr) :
                IF k <= n
                THEN /\ tr[k][2] = lo[k].key
                     /\ tr[k][1] = IF lo[k].writable THEN "Lock" ELSE "RLock"
                     /\ k > 1 => tr[k - 1][2] < tr[k][2]
                ELSE /\ tr[k][2] = tr[2 * n + 1 - k][2]
                     /\ tr[k][1] = ReleaseOf(tr[2 * n + 1 - k][1])
           /\ pc[p] \in {"locking", "blocked"} => Len(tr) = idx[p] - 1
           /\ Begun(p) => Len(tr) = n
           /\ pc[p] = "unlocking" => Len(tr) = 2 * n - idx[p]
           /\ pc[p] \in {"ended", "returned"} => Len(tr) = 2 * n

\* A transaction on two tables, one read-only and one writable, has ended.
C5_Witness ==
    \E p \in Threads :
        /\ pc[p] = "ended"
        /\ Len(trace[p]) = 4
        /\ trace[p][1][1] # trace[p][2][1]

----------------------------------------------------------------------------
\* The tables whose lock p holds, and the locks it is queued on.
HeldBy(p) == {t \in Tables : Holds(locks[t], p)}
QueuedOn(p) == {t \in Tables : p \in locks[t].ww \cup locks[t].rw}

\* A step of EndTx by p: the call or one release.
EndTxStep(p) ==
    \/ pc[p] = "begun" /\ pc'[p] \in {"unlocking", "ended", "returned"}
    \/ pc[p] = "unlocking" /\ (idx'[p] # idx[p] \/ pc'[p] # pc[p])

\* C6 (EndTx restores the lock state): once EndTx has returned, the
\* transaction is done and holds no lock; a step of EndTx changes what another
\* thread holds only by letting a reader blocked on the released lock in, and
\* never what a thread that is not blocked holds; and when no transaction is
\* live every lock is free.
C6_EndRestoresLocks ==
    /\ [](\A p \in Threads :
            pc[p] \in {"ended", "returned"} =>
                tx[p].done /\ HeldBy(p) = {} /\ QueuedOn(p) = {})
    /\ []((\A p \in Threads : Free(p)) =>
            \A t \in Tables : locks[t] = NewRWMutex)
    /\ [][\A p \in Threads : EndTxStep(p) =>
            \A q \in Threads \ {p} :
                /\ HeldBy(q) \subseteq HeldBy(q)'
                /\ \A t \in Tables : (locks[t].w = q) <=> (locks'[t].w = q)
                /\ pc[q] # "blocked" => HeldBy(q)' = HeldBy(q)
                /\ HeldBy(q)' \ HeldBy(q) \subseteq QueuedOn(q)]_vars

\* A transaction has ended while another one still holds, shared, a table they
\* both read.
C6_Witness ==
    \E p \in Threads, q \in Threads, t \in Tables :
        /\ p # q
        /\ pc[p] = "ended" /\ InTx(p, t) /\ ~Writable(p, t)
        /\ Begun(q) /\ InTx(q, t) /\ q \in locks[t].r

----------------------------------------------------------------------------
\* C7 (double end): EndTx on a transaction that is done returns the
\* already-done error and changes nothing: the transaction stays done, it
\* never goes back into the release loop, and no lock changes.
C7_DoubleEnd ==
    [][\A p \in Threads :
         (pc[p] = "ended" /\ (pc'[p] # pc[p] \/ ret'[p] # ret[p])) =>
            \/ /\ pc'[p] \in {"locking", "begun"}
               /\ tx'[p] = NewTx /\ trace'[p] = <<>>
               /\ locks' = locks
            \/ /\ pc'[p] = "ended"
               /\ ret'[p] = [op |-> "EndTx", err |-> ErrAlreadyDone]
               /\ tx'[p] = tx[p] /\ tx[p].done
               /\ cfg'[p] = cfg[p] /\ trace'[p] = trace[p]
               /\ locks' = locks]_vars

\* EndTx has returned the already-done error while another transaction holds a
\* table of the ended transaction's config.
C7_Witness ==
    \E p \in Threads, q \in Threads, t \in Tables :
        /\ p # q
        /\ pc[p] = "ended" /\ ret[p].err = ErrAlreadyDone
        /\ InTx(p, t) /\ Holds(locks[t], q)

----------------------------------------------------------------------------
\* C10 (RunTx): f runs with every lock of the config held; when RunTx has
\* returned, EndTx has run whatever f returned (the transaction is done and
\* every lock call has its release), RunTx's result is f's error if f
\* returned one and otherwise EndTx's (nil), and the thread holds none of the
\* config's locks.
C10_RunTx ==
    \A p \in Threads :
        /\ (run[p] /\ Begun(p)) => DOMAIN cfg[p].tables \subseteq HeldBy(p)
        /\ pc[p] = "returned" =>
             /\ ret[p].op = "RunTx"
             /\ ret[p].err = IF bodyErr[p] # NoErr THEN bodyErr[p] ELSE NoErr
             /\ tx[p].done
             /\ Len(trace[p]) = 2 * Len(cfg[p].lockOrder)
             /\ \A t \in DOMAIN cfg[p].tables : Released(p, t)
             /\ HeldBy(p) = {}
             /\ QueuedOn(p) = {}

\* RunTx over two tables has returned the error of f.
C10_Witness ==
    \E p \in Threads :
        /\ pc[p] = "returned"
        /\ ret[p] = [op |-> "RunTx", err |-> "body error"]
        /\ Len(cfg[p].lockOrder) = 2

----------------------------------------------------------------------------
(* FairSpec: Spec under the scheduling the claim of progress assumes: every *)
(* goroutine keeps running (weak fairness of its own steps), every          *)
(* transaction that has begun is ended (weak fairness of EndTx), and a       *)
(* blocked Lock() is not passed over forever (strong fairness of its        *)
(* wake-up: sync.Mutex hands the lock to a waiter that starves).            *)

\* The caller of the liveness claim ends each transaction it has begun, once:
\* EndTx on a transaction BeginTx has returned and EndTx was not called on.
EndTxOnce(p) ==
    /\ pc[p] = "begun"
    /\ EndTx(p)

NextFair ==
    \E p \in Threads :
        \/ BeginTx(p)
        \/ LockStep(p)
        \/ WakeWriterStep(p)
        \/ WakeReaderStep(p)
        \/ EndTxOnce(p)
        \/ UnlockStep(p)

\* The steps of a goroutine that is inside BeginTx or EndTx and is not parked
\* in Lock, and the EndTx call the caller owes for a transaction it has begun.
ThreadStep(p) ==
    \/ LockStep(p)
    \/ WakeReaderStep(p)
    \/ EndTxOnce(p)
    \/ UnlockStep(p)

\* The scheduler runs every runnable goroutine (weak fairness). A goroutine
\* parked in Lock is handed the mutex if it is free again and again (strong
\* fairness): sync.Mutex switches to starvation mode and hands the lock to the
\* longest waiter.
Fairness ==
    \A p \in Threads :
        /\ WF_vars(ThreadStep(p))
        /\ SF_vars(WakeWriterStep(p))

FairSpec == Init /\ [][NextFair]_vars /\ Fairness

InBeginTx(p) == pc[p] \in {"locking", "blocked"}

\* No thread stays inside BeginTx forever.
BeginTxProgress == \A p \in Threads : []<>(~InBeginTx(p))

\* C3 (BeginTx eventually returns): under fair scheduling, with every begun
\* transaction eventually ended, no thread stays inside BeginTx forever; the
\* only way out of BeginTx is its return of a begun transaction; and a
\* transaction BeginTx has returned holds the lock of each table of its
\* config, exclusively if writable and shared if not.
C3_BeginReturns ==
    /\ [](\A p \in Threads : Begun(p) =>
            \A t \in DOMAIN cfg[p].tables :
                IF Writable(p, t) THEN locks[t].w = p ELSE p \in locks[t].r)
    /\ [][\A p \in Threads :
            InBeginTx(p) => (InBeginTx(p)' \/ Begun(p)')]_vars
    /\ BeginTxProgress

\* A transaction on two tables has begun while another thread is blocked in
\* BeginTx behind it.
C3_Witness ==
    \E p \in Threads, q \in Threads :
        /\ p # q
        /\ Begun(p) /\ Len(cfg[p].lockOrder) = 2
        /\ Blocked(q) /\ WaitsFor(q, p)

----------------------------------------------------------------------------
(* Use of a transaction's tables (SpecOps).                                 *)

\* C8 (use after end is rejected): once EndTx has set tx.done, the thread is
\* inside no table, and the last Table, Read, Get, Put or Count call that
\* returned on the ended transaction returned ErrTxDone.
C8_UseAfterEnd ==
    \A p \in Threads :
        tx[p].done =>
            /\ acc[p] = NoAcc
            /\ ret[p].op \in HandleOps \cup {"Table"} => ret[p].err = ErrTxDone

\* The same without TxTable.Read: Table, Get, Put and Count on an ended
\* transaction return ErrTxDone and stay out of the table.
UseAfterEndExceptRead ==
    \A p \in Threads :
        tx[p].done =>
            /\ acc[p].op \in {"none", "Read"}
            /\ ret[p].op \in (HandleOps \ {"Read"}) \cup {"Table"} =>
                    ret[p].err = ErrTxDone

\* The transaction of p is begun and not ended.
Active(p) == ~tx[p].done /\ pc[p] \in {"begun", "intable"}

\* Every put inside a table is made by a begun transaction that holds the
\* table's lock exclusively.
PutsUnderLock ==
    \A p \in Threads :
        acc[p].op \in PutOps => Active(p) /\ locks[acc[p].tab].w = p

\* C9 (no table mutation outside an exclusive lock): every put inside a
\* table is made by a begun transaction holding the table's lock exclusively,
\* and no other thread is inside the same table at the same time as a put.
C9_NoOverlap ==
    /\ PutsUnderLock
    /\ \A p \in Threads : acc[p] # NoAcc => ~Racing(p)

----------------------------------------------------------------------------
(* PrepareTx (SpecPrep).                                                    *)

ListKeys(l) == {l[i] : i \in 1..Len(l)}
NamedTwice(l) == \E i \in 1..Len(l), j \in 1..Len(l) : i # j /\ l[i] = l[j]

\* The lists of a call PrepareTx must reject.
BadLists(r, w) ==
    \/ NamedTwice(r)
    \/ NamedTwice(w)
    \/ ListKeys(r) \cap ListKeys(w) # {}
    \/ \E k \in ListKeys(r) \cup ListKeys(w) : k \notin Tables

\* C11 (PrepareTx validation): a call whose lists name a table twice (in one
\* list or across both) or name a key that is no table of the DB returns an
\* error and no config; any other call returns a config with no error whose
\* tables are exactly the named ones, each writable exactly if the write list
\* names it, and whose lock order holds exactly these table configs.
C11_PrepareValidation ==
    prepIn.called =>
        LET r == prepIn.readTables
            w == prepIn.writeTables
        IN IF BadLists(r, w)
           THEN /\ prepOut.err \notin {NoErr, NoCfg.err}
                /\ prepOut.lockOrder = <<>>
                /\ prepOut.tables = <<>>
           ELSE /\ prepOut.err = NoErr
                /\ DOMAIN prepOut.tables = ListKeys(r) \cup ListKeys(w)
                /\ \A k \in DOMAIN prepOut.tables :
                     prepOut.tables[k] = TxTableCfg(k, k \in ListKeys(w))
                /\ Len(prepOut.lockOrder) = Len(r) + Len(w)
                /\ \A i \in 1..Len(prepOut.lockOrder) :
                     prepOut.lockOrder[i] =
                        prepOut.tables[prepOut.lockOrder[i].key]

\* PrepareTx has rejected a call that names the same table in the read list
\* and in the write list, both tables of the DB.
C11_Witness ==
    /\ prepIn.called
    /\ ListKeys(prepIn.readTables) \cap ListKeys(prepIn.writeTables) # {}
    /\ ListKeys(prepIn.readTables) \cup ListKeys(prepIn.writeTables) \subseteq Tables
    /\ prepOut.err = "locked twice"
----------------------------------------------------------------------------
(* C12 (SpecHandle).                                                        *)

\* The config c grants table tb for reading only.
ReadOnlyIn(c, tb) == tb \in DOMAIN c.tables /\ ~c.tables[tb].writable

\* The step leaves the data file, the index file and tab.index of tb alone.
TableUnchanged(tb) ==
    /\ dataFile'[tb] = dataFile[tb]
    /\ indexFile'[tb] = indexFile[tb]
    /\ tab'[tb] = tab[tb]

\* C12: a Put through a table handle of a table the config grants for reading
\* only, and the fluent Put on such a table, leave the table's data file,
\* index file and in-memory index unchanged; on a begun transaction the handle's
\* Put returns ErrTableNotWritableInTx of that table, and the fluent Put of a
\* begun transaction without a recorded error records that error.
C12_ReadOnlyPut ==
    [][\A tb \in Tables :
        /\ (out'.op = "Put" /\ handle[ChainThread].tab = tb
                /\ ReadOnlyIn(cfg[ChainThread], tb))
            => /\ TableUnchanged(tb)
               /\ ~tx[ChainThread].done
                    => out'.err = KeyedErr(ErrTableNotWritableInTx, tb)
        /\ (out'.op = "Tx.Put" /\ out'.table = tb /\ ReadOnlyIn(cfg[ChainThread], tb))
            => /\ TableUnchanged(tb)
               /\ (~tx[ChainThread].done /\ tx[ChainThread].err = NoErr)
                    => tx'[ChainThread].err = KeyedErr(ErrTableNotWritableInTx, tb)
      ]_vars

\* A begun transaction that holds for reading a table an earlier transaction
\* has put records into, after a Put through its handle was turned down.
C12_Witness ==
    /\ out.op = "Put"
    /\ ~tx[ChainThread].done
    /\ out.table \in Tables
    /\ ReadOnlyIn(cfg[ChainThread], out.table)
    /\ out.err = KeyedErr(ErrTableNotWritableInTx, out.table)
    /\ hist[out.table] # <<>>
----------------------------------------------------------------------------
(* C13 (SpecHandle).                                                        *)

\* C13: Table(key) on a begun transaction returns a handle of the table, with
\* the writable flag of the config, when key is in the config, and
\* ErrTableNotInTx(key) and no handle when it is not; the call changes neither
\* the transaction (its recorded error stays what it was, so the fluent calls
\* that follow run as they would have) nor its config.
C13_DirectAccessor ==
    [][(out'.op = "Table" /\ ~tx[ChainThread].done)
        => /\ out'.table \in DOMAIN cfg[ChainThread].tables
                => /\ out'.err = NoErr
                   /\ out'.ok
                   /\ handle'[ChainThread] =
                        [tab |-> out'.table,
                         writable |-> cfg[ChainThread].tables[out'.table].writable]
           /\ out'.table \notin DOMAIN cfg[ChainThread].tables
                => /\ out'.err = KeyedErr(ErrTableNotInTx, out'.table)
                   /\ ~out'.ok
                   /\ handle'[ChainThread] = handle[ChainThread]
           /\ tx' = tx
           /\ cfg' = cfg
           /\ \A tb \in TableKeys :
                /\ TxAccess(tx'[ChainThread], cfg'[ChainThread], tb)
                     = TxAccess(tx[ChainThread], cfg[ChainThread], tb)
                /\ TxPut(tx'[ChainThread], cfg'[ChainThread], tb)
                     = TxPut(tx[ChainThread], cfg[ChainThread], tb)
      ]_vars

\* A begun transaction without a recorded error that keeps a handle and has
\* just been refused a table of the database that is not in its config.
C13_Witness ==
    /\ out.op = "Table"
    /\ ~out.ok
    /\ out.table \in Tables
    /\ out.err = KeyedErr(ErrTableNotInTx, out.table)
    /\ ~tx[ChainThread].done
    /\ tx[ChainThread].err = NoErr
    /\ handle[ChainThread] # NoHandle
----------------------------------------------------------------------------
(* C14, C15, C16 (SpecChain).                                               *)

FluentOps == {"Tx.Put", "Tx.Read", "Tx.Get", "Tx.Exists"}

\* The step changes no file, no in-memory index, and calls no put.
TablesUnchanged == UNCHANGED <<dataFile, indexFile, tab, hist>>

\* C14: on a transaction with a recorded error every fluent Put, Read, Get and
\* Exists leaves the files and the in-memory index of every table and the
\* transaction as they are; Read leaves its slice with its length and content,
\* Get returns nil and Exists returns false.
C14_ShortCircuit ==
    [][(tx[ChainThread].err # NoErr /\ out'.op \in FluentOps)
        => /\ TablesUnchanged
           /\ tx' = tx
           /\ out'.op = "Tx.Read" => out'.val = NewBuf(out'.n)
           /\ out'.op = "Tx.Get" => out'.isNil /\ out'.val = <<>>
           /\ out'.op = "Tx.Exists" => ~out'.ok
      ]_vars

\* A begun transaction with a recorded error whose Get has returned nil for a
\* table of its config that holds every key.
C14_Witness ==
    /\ out.op = "Tx.Get"
    /\ out.isNil
    /\ tx[ChainThread].err # NoErr
    /\ ~tx[ChainThread].done
    /\ out.table \in DOMAIN cfg[ChainThread].tables
    /\ DOMAIN tab[out.table].index = StoreKeys

\* C15: tx.err becomes non-nil only in a fluent call, which then returns with
\* Err() its own error: ErrTableNotInTx(table) for a table outside the config,
\* ErrTableNotWritableInTx(table) for a Put on a table held for reading; once
\* non-nil it keeps its value through every later call on the transaction.
C15_FirstErrorWins ==
    [][/\ (tx[ChainThread].err = NoErr /\ tx'[ChainThread].err # NoErr)
            => out'.op \in FluentOps /\ out'.err = tx'[ChainThread].err
       /\ (tx[ChainThread].err = NoErr /\ ~tx[ChainThread].done
                /\ out'.op \in FluentOps
                /\ out'.table \notin DOMAIN cfg[ChainThread].tables)
            => tx'[ChainThread].err = KeyedErr(ErrTableNotInTx, out'.table)
       /\ (tx[ChainThread].err = NoErr /\ ~tx[ChainThread].done
                /\ out'.op = "Tx.Put"
                /\ ReadOnlyIn(cfg[ChainThread], out'.table))
            => tx'[ChainThread].err = KeyedErr(ErrTableNotWritableInTx, out'.table)
       /\ (tx[ChainThread].err # NoErr /\ out'.op # "BeginTx")
            => tx'[ChainThread].err = tx[ChainThread].err
      ]_vars

\* After a fluent Put on a table outside the config, Err() is the error an
\* earlier call recorded for another table.
C15_Witness ==
    /\ out.op = "Tx.Put"
    /\ ~tx[ChainThread].done
    /\ out.table \notin DOMAIN cfg[ChainThread].tables
    /\ tx[ChainThread].err # NoErr
    /\ tx[ChainThread].err # KeyedErr(ErrTableNotInTx, out.table)
    /\ out.err = tx[ChainThread].err

\* The value of the last put of key in h.
RECURSIVE LastPut(_, _)
LastPut(h, key) ==
    IF h[Len(h)].key = key THEN h[Len(h)].val ELSE LastPut(SubSeq(h, 1, Len(h) - 1), key)
PutKeys(h) == {h[i].key : i \in 1..Len(h)}

----------------------------------------------------------------------------
(* C17 (SpecTable).                                                         *)

\* The positions in h of the puts of key.
PutsOf(h, key) == {i \in 1..Len(h) : h[i].key = key}

\* C17: on a table all of whose puts returned nil, get of a key that was put
\* returns the value of its last put, read into a buffer at least that long
\* returns its length and fills the head of the buffer with it, and exists is
\* true.
C17_LastWriteWins ==
    (out.op \in {"get", "read", "exists"} /\ out.key \in PutKeys(hist[TestTable]))
        => LET last == LastPut(hist[TestTable], out.key)
           IN /\ out.err = NoErr
              /\ out.op = "get" => ~out.isNil /\ out.val = last
              /\ (out.op = "read" /\ Len(out.val) >= Len(last))
                    => out.n = Len(last) /\ SubSeq(out.val, 1, out.n) = last
              /\ out.op = "exists" => out.ok

\* get of a key after two puts of different values to it and a put to
\* another key.
C17_Witness ==
    /\ out.op = "get"
    /\ Cardinality(PutsOf(hist[TestTable], out.key)) >= 2
    /\ PutKeys(hist[TestTable]) # {out.key}
    /\ \E i \in PutsOf(hist[TestTable], out.key) : hist[TestTable][i].val # out.val
    /\ out.val = LastPut(hist[TestTable], out.key)
    /\ out.val # <<>>
----------------------------------------------------------------------------
(* C18 (SpecTable).                                                         *)

\* The records of the index file f, in file order.
RecordsOf(f) ==
    [i \in 1..(Len(f) \div IndexRecordSize) |->
        Decode(SubSeq(f, (i - 1) * IndexRecordSize + 1, i * IndexRecordSize)).ir]

\* The last record of key in the index file f.
LastRecord(f, key) ==
    LET recs == RecordsOf(f)
        last == CHOOSE i \in DOMAIN recs :
                    /\ recs[i].key = key
                    /\ \A j \in DOMAIN recs : recs[j].key = key => j <= i
    IN recs[last]

\* C18: on a table all of whose puts returned nil, newTable on the files a
\* close left returns no error; whenever the table is open, before a close and
\* after the open that follows it, the keys of the in-memory index are the keys
\* that were put, each entry has the data offset and size of the last record
\* of its key in the index file, and get returns the value of the key's last
\* put.
C18_Persistence ==
    /\ out.op = "newTable" => out.err = NoErr /\ tab[TestTable].open
    /\ tab[TestTable].open
        => /\ DOMAIN tab[TestTable].index = PutKeys(hist[TestTable])
           /\ \A key \in PutKeys(hist[TestTable]) :
                /\ tab[TestTable].index[key].offset
                     = LastRecord(indexFile[TestTable], key).offset
                /\ tab[TestTable].index[key].size
                     = LastRecord(indexFile[TestTable], key).size
                /\ TableGet(StoreOf(TestTable), key)
                     = [val |-> LastPut(hist[TestTable], key), isNil |-> FALSE,
                        err |-> NoErr]

\* The table reopened after puts to two keys, one of them put twice with
\* different values.
C18_Witness ==
    /\ out.op = "newTable"
    /\ tab[TestTable].open
    /\ Cardinality(PutKeys(hist[TestTable])) = 2
    /\ \E key \in PutKeys(hist[TestTable]) :
        \E i \in PutsOf(hist[TestTable], key) :
            hist[TestTable][i].val # LastPut(hist[TestTable], key)
----------------------------------------------------------------------------
(* C19 (SpecTable).                                                         *)

\* The values of the puts of key in h, newest first.
RECURSIVE ValuesOf(_, _)
ValuesOf(h, key) ==
    IF h = <<>> THEN <<>>
    ELSE IF h[Len(h)].key = key
         THEN <<h[Len(h)].val>> \o ValuesOf(SubSeq(h, 1, Len(h) - 1), key)
         ELSE ValuesOf(SubSeq(h, 1, Len(h) - 1), key)

\* C19: after N >= 1 puts of a key, with puts of other keys and closes and
\* opens of the table in between, rangeRevEntries of the key returns no error
\* and visits N records, all of that key, the i-th of which locates in the data
\* file the value of the i-th newest put of the key, and the last of which has
\* prevIndexOffset = math.MaxInt64.
C19_HistoryComplete ==
    (out.op = "rangeRevEntries" /\ out.key \in PutKeys(hist[TestTable]))
        => LET want == ValuesOf(hist[TestTable], out.key)
               n == Len(want)
           IN /\ out.err = NoErr
              /\ Len(out.visited) = n
              /\ \A i \in 1..Len(out.visited) :
                    /\ out.visited[i].key = out.key
                    /\ i <= n
                    /\ out.visited[i].size = Len(want[i])
                    /\ ReadEntry(dataFile[TestTable], out.visited[i],
                                 out.visited[i].size).bytes = want[i]
              /\ out.visited[Len(out.visited)].prevIndexOffset = MaxInt64
----------------------------------------------------------------------------
(* C20 (SpecIO).                                                            *)

\* The file g starts with the whole of the file f.
Extends(g, f) == Len(g) >= Len(f) /\ SubSeq(g, 1, Len(f)) = f

\* C20: every step (newTable, a put that returns nil or fails at any of its
\* seeks, writes and syncs, read, get, close) leaves each data file and each
\* index file at least as long as it was, with every byte it had unchanged.
C20_AppendOnly ==
    [][\A tb \in Tables :
        /\ Extends(dataFile'[tb], dataFile[tb])
        /\ Extends(indexFile'[tb], indexFile[tb])
      ]_vars

\* A put has failed in the middle of its index record, and the put after it
\* has returned nil.
C20_Witness ==
    /\ Len(hist[TestTable]) = 2
    /\ hist[TestTable][1].err # NoErr
    /\ hist[TestTable][2].err = NoErr
    /\ Len(indexFile[TestTable]) % IndexRecordSize # 0
    /\ Len(indexFile[TestTable]) > IndexRecordSize

----------------------------------------------------------------------------
(* C21 (SpecIO).                                                            *)

\* The length of the index file of tb after the i-th put of its history.
IndexLenAfter(tb, i) ==
    IF i < Len(hist[tb]) THEN hist[tb][i + 1].indexOffset ELSE Len(indexFile[tb])

\* The records that the puts of tb wrote in full, read where they were written.
PutRecords(tb) ==
    {Decode(SubSeq(indexFile[tb], hist[tb][i].indexOffset + 1,
                   hist[tb][i].indexOffset + IndexRecordSize)).ir :
        i \in {j \in 1..Len(hist[tb]) :
                  IndexLenAfter(tb, j) = hist[tb][j].indexOffset + IndexRecordSize}}

\* The record or entry e of tb lies inside the data file, on the bytes that a
\* put of its key wrote there as its value.
Backed(tb, e) ==
    /\ e.offset + e.size <= Len(dataFile[tb])
    /\ \E i \in 1..Len(hist[tb]) :
        /\ hist[tb][i].offset = e.offset
        /\ hist[tb][i].key = e.key
        /\ hist[tb][i].val = SubSeq(dataFile[tb], e.offset + 1, e.offset + e.size)

\* C21: in every state, the states a process killed at any step of put leaves
\* included, every full record of the index file (as the puts wrote them and
\* as the scan cuts them) and every entry of the in-memory index has
\* offset + size within the data file, and the bytes there are the value of
\* the put that wrote the record.
C21_NeverDangles ==
    \A tb \in Tables :
        /\ \A key \in DOMAIN tab[tb].index : Backed(tb, tab[tb].index[key])
        /\ \A r \in ScanRecords(indexFile[tb]) \cup PutRecords(tb) : Backed(tb, r)

\* The process was killed in its second put after the data and the separator
\* were written and before any byte of the index record was: the index file
\* holds the record of the first put alone.
C21_Witness ==
    /\ out.op = "crash"
    /\ Len(hist[TestTable]) = 2
    /\ hist[TestTable][2].val # <<>>
    /\ Len(dataFile[TestTable])
         = hist[TestTable][2].offset + Len(hist[TestTable][2].val) + SepBufferSize
    /\ Len(indexFile[TestTable]) = IndexRecordSize

----------------------------------------------------------------------------
(* C22 (SpecIO).                                                            *)

\* The last put of tb stopped the process after the data and the separator
\* were written (inside dataFile.Sync) and before the index record was.
StoppedBetweenLogs(tb) ==
    /\ hist[tb] # <<>>
    /\ hist[tb][Len(hist[tb])].err = Killed
    /\ hist[tb][Len(hist[tb])].at = "syncData"

\* What get returns for key on a table whose puts were h, all returned nil.
GetAfter(h, key) ==
    IF key \in PutKeys(h)
    THEN [val |-> LastPut(h, key), isNil |-> FALSE, err |-> NoErr]
    ELSE [val |-> <<>>, isNil |-> TRUE, err |-> ErrKeyNotFound]

\* C22: when the process stopped in put(K, V) between the write of the data
\* file and the write of the index file, newTable on the files it left
\* returns no error, get of K (and of every other key) then returns what it
\* returned before that put, KeyNotFound when K had no value, and no index
\* record and no in-memory entry reaches into the bytes that put appended.
C22_CrashBetweenLogs ==
    StoppedBetweenLogs(TestTable)
        => LET h == hist[TestTable]
               last == h[Len(h)]
               before == SubSeq(h, 1, Len(h) - 1)
           IN /\ Len(dataFile[TestTable])
                    = last.offset + Len(last.val) + SepBufferSize
              /\ \A r \in ScanRecords(indexFile[TestTable]) :
                    r.offset + r.size <= last.offset
              /\ out.op = "newTable" => out.err = NoErr
              /\ tab[TestTable].open
                    => /\ \A key \in DOMAIN tab[TestTable].index :
                            tab[TestTable].index[key].offset
                                + tab[TestTable].index[key].size <= last.offset
                       /\ \A key \in StoreKeys :
                            TableGet(StoreOf(TestTable), key) = GetAfter(before, key)
              /\ out.op = "get" => [val |-> out.val, isNil |-> out.isNil,
                                    err |-> out.err] = GetAfter(before, out.key)

\* The key had a value, the process stopped between the two logs in a put of
\* another value for it, and get on the reopened table returned the old one.
C22_Witness ==
    /\ StoppedBetweenLogs(TestTable)
    /\ Len(hist[TestTable]) = 2
    /\ out.op = "get"
    /\ out.key = hist[TestTable][2].key
    /\ hist[TestTable][1].key = out.key
    /\ hist[TestTable][1].val # hist[TestTable][2].val
    /\ out.val = hist[TestTable][1].val

----------------------------------------------------------------------------
(* C23 (SpecIO).                                                            *)

\* The step is a call of put on TestTable that returned an error.
FailedPut ==
    /\ out'.op = "put"
    /\ out'.err # NoErr
    /\ hist'[TestTable] # hist[TestTable]

\* Every step but a put that fails at the write or the sync of the index
\* file: the part of C23 that the code keeps.
FailedBeforeIndex ==
    /\ FailedPut
    /\ out'.err \notin {"error while writing index record",
                        "error fsyncing index table"}

\* C23: a put that returns an error, at whichever step, leaves the in-memory
\* index as it was before the call: the entry of its key (offset, size, index
\* offset, previous index offset) is unchanged or still absent, so exists,
\* count and get answer as before.
C23_FailedPutPublishesNothing ==
    [][FailedPut
        => /\ tab'[TestTable].index = tab[TestTable].index
           /\ \A key \in StoreKeys :
                TableExists(StoreOf(TestTable), key)
                    = (key \in DOMAIN tab'[TestTable].index)
           /\ TableCount(StoreOf(TestTable))
                = Cardinality(DOMAIN tab'[TestTable].index)
      ]_vars

\* The same for the puts that fail before the index file is written: these
\* do leave the in-memory index unchanged.
C23_FailedDataWrite ==
    [][FailedBeforeIndex => tab'[TestTable].index = tab[TestTable].index]_vars

----------------------------------------------------------------------------
(* C24 (SpecIO).                                                            *)

\* The index file of tb is whole records and, after them, the head of the
\* record that the last put was writing when it failed or the process stopped.
CutTail(tb) ==
    /\ hist[tb] # <<>>
    /\ hist[tb][Len(hist[tb])].indexOffset % IndexRecordSize = 0
    /\ Len(indexFile[tb]) - hist[tb][Len(hist[tb])].indexOffset
         \in 1..(IndexRecordSize - 1)

\* The whole records of the index file of tb, without the cut one.
WholePart(tb) == SubSeq(indexFile[tb], 1, hist[tb][Len(hist[tb])].indexOffset)

\* C24: newTable on an index file that ends in a cut record returns no error
\* and a table whose in-memory index has the keys of the whole records before
\* the cut one, each with the data offset, size and previous index offset of
\* the last whole record of its key.
C24_TruncatedTail ==
    (CutTail(TestTable) /\ out.op = "newTable")
        => /\ out.err = NoErr
           /\ tab[TestTable].open
           /\ LET recs == RecordsOf(WholePart(TestTable))
                  m == tab[TestTable].index
              IN /\ DOMAIN m = {recs[i].key : i \in DOMAIN recs}
                 /\ \A key \in DOMAIN m :
                    LET r == LastRecord(WholePart(TestTable), key)
                    IN /\ m[key].key = key
                       /\ m[key].offset = r.offset
                       /\ m[key].size = r.size
                       /\ m[key].prevIndexOffset = r.prevIndexOffset

\* A table reopened on an index file of one whole record and a cut one.
C24_Witness ==
    /\ CutTail(TestTable)
    /\ out.op = "newTable"
    /\ tab[TestTable].open
    /\ Len(WholePart(TestTable)) = IndexRecordSize
    /\ DOMAIN tab[TestTable].index # {}

----------------------------------------------------------------------------
(* C25 (SpecScan).                                                          *)

\* Block i (from 0) of the index file f, decoded.
BlockAt(f, i) ==
    Decode(SubSeq(f, i * IndexRecordSize + 1, (i + 1) * IndexRecordSize))

\* The scan positions of the full-width blocks of f that do not decode.
BadBlocks(f) ==
    {i \in 0..((Len(f) \div IndexRecordSize) - 1) : BlockAt(f, i).err # NoErr}

\* C25: newTable on an index file with a full-width block that does not
\* decode returns no table and the decode error of that block with its scan
\* position i (of the first such block when there are several), whatever
\* number of blocks that decode stands before it and after it.
C25_InteriorCorruption ==
    (out.op = "newTable" /\ BadBlocks(indexFile[TestTable]) # {})
        => LET f == indexFile[TestTable]
               i == CHOOSE b \in BadBlocks(f) : \A c \in BadBlocks(f) : b <= c
           IN /\ ~tab[TestTable].open
              /\ out.err = IndexEntryError(i, BlockAt(f, i).err)

\* newTable has failed on an index file of three full-width blocks, the
\* second of which does not decode while the first and the third do.
C25_Witness ==
    /\ out.op = "newTable"
    /\ out.err # NoErr
    /\ BadBlocks(indexFile[TestTable]) = {1}
    /\ Len(indexFile[TestTable]) = 3 * IndexRecordSize

----------------------------------------------------------------------------
(* C26 (SpecTable).                                                         *)

\* C26: read(K, buf) of a key that was put returns no error and
\* n = min(len(buf), size of the last value of K); the first n bytes of buf
\* are the first n bytes of that value, read at the data offset of the entry
\* of K; buf keeps its length and its bytes after n are as they were (zero),
\* so no byte of the separator or of another record is returned.
C26_BoundedRead ==
    (out.op = "read" /\ out.key \in PutKeys(hist[TestTable]))
        => LET v == LastPut(hist[TestTable], out.key)
               e == tab[TestTable].index[out.key]
               n == Min(Len(out.val), Len(v))
           IN /\ out.err = NoErr
              /\ out.n = n
              /\ e.size = Len(v)
              /\ SubSeq(out.val, 1, n) = SubSeq(v, 1, n)
              /\ SubSeq(out.val, 1, n)
                    = SubSeq(dataFile[TestTable], e.offset + 1, e.offset + n)
              /\ \A j \in (n + 1)..Len(out.val) : out.val[j] = 0

\* A read into a buffer longer than the value, of a key whose value is not
\* the first of the data file and not the last.
C26_Witness ==
    /\ out.op = "read"
    /\ out.key \in PutKeys(hist[TestTable])
    /\ Len(out.val) > out.n
    /\ out.n = MaxValueLen
    /\ tab[TestTable].index[out.key].offset > 0
    /\ hist[TestTable][Len(hist[TestTable])].key # out.key

----------------------------------------------------------------------------
(* C27 (SpecIO).                                                            *)

\* The keys of the puts of history h that returned nil.
PutOkKeys(h) == {h[i].key : i \in {j \in 1..Len(h) : h[j].err = NoErr}}

\* What exists, count, get and read answered, against the set of keys S.
AnswersFor(S) ==
    /\ out.op = "exists" => out.ok = (out.key \in S)
    /\ out.op = "count" => out.n = Cardinality(S)
    /\ out.op \in {"get", "read"} => (out.err = ErrKeyNotFound) = (out.key \notin S)

\* C27: exists is true, and get and read do not return KeyNotFound, for the
\* keys that at least one put that returned nil has written and for no other
\* key; count is the number of these keys.
C27_KeySet == AnswersFor(PutOkKeys(hist[TestTable]))

\* No put of tb has got as far as the write of its index record without
\* returning nil.
NoIndexFailure(tb) ==
    \A i \in 1..Len(hist[tb]) :
        \/ hist[tb][i].err \in {NoErr, IOError, "error fsyncing data table"}
        \/ hist[tb][i].err = Killed
             /\ hist[tb][i].at \notin {"writeIndex", "syncIndex"}

\* The same while every failure was at a step before the index write.
C27_KeySetDataFailures ==
    NoIndexFailure(TestTable) => AnswersFor(PutOkKeys(hist[TestTable]))

----------------------------------------------------------------------------
(* C28 (SpecDB).                                                            *)

\* The step is a call of NewDB that returned an error.
FailedNewDB == out'.op = "NewDB" /\ out'.err # NoErr

\* C28: a call of NewDB that returns an error returns no DB and leaves no
\* table open and no handle of a table file open that was not open before
\* the call: the tables it opened before the failing one are closed, and the
\* failing newTable has left none of its own.
C28_OpenAllOrNothing ==
    [][FailedNewDB
        => /\ db'.state = "none"
           /\ \A t \in Tables : ~tab'[t].open
           /\ db'.leaked = db.leaked
      ]_vars

\* The part of it that is about the tables opened before the failing one:
\* the files the call leaves open are files of the failing table.
C28_EarlierTablesClosed ==
    [][FailedNewDB
        => /\ db'.state = "none"
           /\ \A t \in Tables : ~tab'[t].open
           /\ \A h \in db'.leaked \ db.leaked : h[1] = out'.table
      ]_vars

----------------------------------------------------------------------------
(* C29 (SpecDB).                                                            *)

\* The errors of the calls of tab.close() that Close made, in call order.
CloseErrs == [i \in DOMAIN out.visited |-> out.visited[i].err]
FailedCloses == {i \in DOMAIN out.visited : out.visited[i].err # NoErr}

\* The result is that of a Close that closed the tables of an open DB.
ClosedNow == out.op = "Close" /\ out.err # "already closed"

\* C29: Close calls close on every table of the DB, whatever the calls
\* before returned; it returns nil when every call returned nil, and
\* otherwise the error of the first call that returned one.
C29_CloseReportsFirstError ==
    ClosedNow
        => /\ {out.visited[i].table : i \in DOMAIN out.visited} = Tables
           /\ \A t \in Tables : ~tab[t].open
           /\ IF FailedCloses = {} THEN out.err = NoErr
              ELSE out.err = CloseErrs[CHOOSE i \in FailedCloses :
                                          \A j \in FailedCloses : i <= j]

\* The part of it that the code keeps: every table is closed.
C29_ClosesEveryTable ==
    ClosedNow
        => /\ {out.visited[i].table : i \in DOMAIN out.visited} = Tables
           /\ \A t \in Tables : ~tab[t].open

----------------------------------------------------------------------------
(* C30 (SpecCodec).                                                         *)

\* The fields of an index record that writeEntry writes.
Encoded(r) ==
    [dataFile |-> r.dataFile, offset |-> r.offset, size |-> r.size,
     key |-> r.key, prevIndexOffset |-> r.prevIndexOffset]

\* C30: for every record with a data file number, a data offset, a size and
\* a previous index offset from 0 up, or math.MaxInt64 for no previous
\* record, and any key, writeEntry gives a buffer of indexRecordSize bytes
\* and decode of that buffer returns no error and a record with the same data
\* file, offset, size, key and previous index offset.
C30_CodecRoundTrip ==
    out.op = "decode"
        => /\ Len(out.val) = IndexRecordSize
           /\ out.err = NoErr
           /\ Encoded(out.visited[2]) = Encoded(out.visited[1])

\* The round trip of a record without a previous one, with an offset and a
\* size of more than one byte and a key with letters among its hex digits.
C30_Witness ==
    /\ out.op = "decode"
    /\ out.visited[1].prevIndexOffset = MaxInt64
    /\ out.visited[1].offset > 65535
    /\ out.visited[1].size = 255
    /\ out.visited[1].key \notin StoreKeys
    /\ out.visited[2].offset = out.visited[1].offset

----------------------------------------------------------------------------
(* C31 (Spec).                                                              *)

\* The transactions other than p that hold table t read-only.
ReadersOf(t, p) == {q \in Threads \ {p} : HoldsTable(q, t) /\ ~Writable(q, t)}

\* C31: transactions that have a table read-only hold it together; a
\* transaction that has the table writable gets its lock only in a step
\* before which no reader holds it any more, and while readers hold it the
\* writer is inside Lock and has not begun; a reader waits in RLock only
\* while a writer holds the lock or waits for it.
C31_ConcurrentReaders ==
    /\ [][\A t \in Tables : \A p \in Threads :
            (locks'[t].w = p /\ locks[t].w # p)
                => locks[t].r = {} /\ ReadersOf(t, p) = {}
         ]_vars
    /\ [](\A t \in Tables : \A p \in Threads :
            /\ (Writable(p, t) /\ ReadersOf(t, p) # {})
                    => ~Begun(p) /\ locks[t].w # p
            /\ p \in locks[t].rw => locks[t].w # None \/ locks[t].ww # {})

\* Two transactions have begun that hold table 1 read-only, and a third that
\* has it writable is blocked in Lock.
C31_Witness ==
    \E p, q, w \in Threads :
        /\ p # q
        /\ Begun(p) /\ Begun(q)
        /\ {p, q} \subseteq ReadersOf(1, w)
        /\ {p, q} \subseteq locks[1].r
        /\ Writable(w, 1)
        /\ pc[w] = "blocked"
        /\ w \in locks[1].ww

----------------------------------------------------------------------------
(* C32 (Spec).                                                              *)

\* C32: the config of a transaction is a result of PrepareTx and stays the
\* value PrepareTx returned through every step of BeginTx and EndTx, of the
\* transaction itself and of the other threads: the only step after which a
\* thread has another config is its next BeginTx, with a prepared config
\* again.  Whoever else uses the same config, and however often it was used
\* before, the transaction that has begun holds exactly the tables of the
\* config, each in the mode the config gives.
C32_ConfigReuse ==
    /\ [][\A p \in Threads :
            cfg'[p] # cfg[p] =>
                Free(p) /\ ~Free(p)' /\ cfg'[p] \in PreparedConfigs]_vars
    /\ [](\A p \in Threads :
            /\ pc[p] # "idle" => cfg[p] \in PreparedConfigs
            /\ Begun(p) =>
                  \A t \in Tables :
                      /\ InTx(p, t) <=> Holds(locks[t], p)
                      /\ Writable(p, t) <=> locks[t].w = p
                      /\ (InTx(p, t) /\ ~Writable(p, t)) <=> p \in locks[t].r)

\* Three threads use one config that reads table 1: the transaction of one
\* has ended and those of the two others have begun.
C32_Witness ==
    \E p, q, r \in Threads :
        /\ p # q /\ p # r /\ q # r
        /\ cfg[p] = cfg[q] /\ cfg[q] = cfg[r]
        /\ InTx(p, 1)
        /\ pc[p] = "ended" /\ Len(trace[p]) = 2 * Len(cfg[p].lockOrder)
        /\ Begun(q) /\ Begun(r)

----------------------------------------------------------------------------
(* C33 (SpecPrepLocks).                                                     *)

\* C33: as long as it has not been called, PrepareTx can be called and
\* returns for any one table and for both tables together, whatever locks
\* the transactions hold or wait for; the step of the call leaves every table
\* lock and every transaction as it was; and what it returns is what it
\* returns for the same lists when no lock is held.
C33_PrepareIgnoresLocks ==
    /\ [](~prepIn.called =>
            /\ \A t \in Tables :
                  ENABLED (CallPrepareTx /\ prepIn'.readTables = <<>>
                                         /\ prepIn'.writeTables = <<t>>)
            /\ ENABLED (CallPrepareTx /\ prepIn'.readTables = <<1>>
                                      /\ prepIn'.writeTables = <<NumTables>>))
    /\ [][prepVars' # prepVars =>
            /\ locks' = locks
            /\ pc' = pc /\ tx' = tx /\ cfg' = cfg /\ idx' = idx]_vars
    /\ [](prepIn.called =>
            prepOut = PrepareTx(prepIn.readTables, prepIn.writeTables))

\* PrepareTx has returned a config over both tables from a call made while
\* both tables were locked exclusively, and they still are.
C33_Witness ==
    /\ prepIn.called
    /\ prepIn.exclusive = Tables
    /\ prepOut.err = NoErr
    /\ Len(prepOut.lockOrder) = NumTables
    /\ \A t \in Tables : locks[t].w # None

----------------------------------------------------------------------------
(* C34 (SpecTable).                                                         *)

\* The start of the last record of key among the full-width blocks of the
\* index file f.
LastRecordStart(f, key) ==
    LET at == {i \in 0..((Len(f) \div IndexRecordSize) - 1) :
                  BlockAt(f, i).ir.key = key}
    IN (CHOOSE i \in at : \A j \in at : j <= i) * IndexRecordSize

\* The index offset the entry of key had in memory after the last put of key.
OffsetBeforeClose(tb, key) ==
    LET at == {i \in 1..Len(hist[tb]) : hist[tb][i].key = key}
    IN hist[tb][CHOOSE i \in at : \A j \in at : j <= i].indexOffset

\* C34: when newTable has returned the table, the index offset of every entry
\* in memory is the offset at which the entry's record starts in the index
\* file, the value the entry had before the table was closed.
C34_OwnIndexOffset ==
    (out.op = "newTable" /\ out.err = NoErr) =>
        \A key \in DOMAIN tab[out.table].index :
            /\ tab[out.table].index[key].indexOffset
                    = LastRecordStart(indexFile[out.table], key)
            /\ tab[out.table].index[key].indexOffset
                    = OffsetBeforeClose(out.table, key)

----------------------------------------------------------------------------
(* C35 (SpecTable).                                                         *)

\* The record a put has appended to the index file of tb.
Appended(tb) ==
    Decode(SubSeq(indexFile'[tb], Len(indexFile[tb]) + 1, Len(indexFile'[tb])))

\* C35: a put(K, ...) that returns nil appends one record of K to the index
\* file and changes nothing before it; the previous index offset of the
\* record is the no-previous sentinel when the file holds no record of K, and
\* otherwise the offset of the last record of K in the file before the put,
\* never the offset of the new record.
C35_PreviousLink ==
    [][(out'.op = "put" /\ out'.err = NoErr) =>
          LET tb == out'.table
              f == indexFile[tb]
              olds == {i \in 0..((Len(f) \div IndexRecordSize) - 1) :
                          BlockAt(f, i).ir.key = out'.key}
          IN /\ Len(indexFile'[tb]) = Len(f) + IndexRecordSize
             /\ SubSeq(indexFile'[tb], 1, Len(f)) = f
             /\ Appended(tb).err = NoErr
             /\ Appended(tb).ir.key = out'.key
             /\ Appended(tb).ir.prevIndexOffset # Len(f)
             /\ Appended(tb).ir.prevIndexOffset =
                    IF olds = {} THEN MaxInt64
                    ELSE LastRecordStart(f, out'.key)]_vars

----------------------------------------------------------------------------
(* C36 (SpecChain).                                                         *)

\* C36: a fluent Put, Read, Get or Exists on a transaction that is done
\* leaves the files, the table indexes and the transaction with its recorded
\* error as they were; Read returns the slice as it was given, Get returns
\* nil and Exists returns false.
C36_FluentAfterEnd ==
    [][(tx[ChainThread].done /\ out'.op \in FluentOps) =>
          /\ dataFile' = dataFile /\ indexFile' = indexFile
          /\ tab' = tab /\ hist' = hist
          /\ tx' = tx
          /\ out'.err = tx[ChainThread].err
          /\ out'.op = "Tx.Read" => out'.val = NewBuf(out'.n)
          /\ out'.op = "Tx.Get" => out'.isNil /\ out'.val = <<>>
          /\ out'.op = "Tx.Exists" => ~out'.ok]_vars

\* Get on a table of the config of an ended transaction without a recorded
\* error has returned nil while the table holds a value under every key.
C36_Witness ==
    /\ tx[ChainThread].done
    /\ tx[ChainThread].err = NoErr
    /\ pc[ChainThread] = "ended"
    /\ out.op = "Tx.Get"
    /\ out.isNil
    /\ out.table \in Tables
    /\ InTx(ChainThread, out.table)
    /\ DOMAIN tab[out.table].index = StoreKeys

----------------------------------------------------------------------------
(* C37 (SpecIO).                                                            *)

\* The process was killed while the first put wrote its index record and
\* left a partial record; the table was opened on it and the second put
\* returned nil.
PutAfterCutTail(tb) ==
    /\ Len(hist[tb]) = 2
    /\ hist[tb][1].err = Killed
    /\ hist[tb][1].at = "writeIndex"
    /\ hist[tb][2].indexOffset \in 1..(IndexRecordSize - 1)
    /\ hist[tb][2].err = NoErr

\* C37: when a table whose index file ended in a partial record was opened,
\* got a put that returned nil and was closed, newTable returns it without
\* error and get of the key of that put returns the value of that put.
C37_RecoveryAfterCutTail ==
    (PutAfterCutTail(TestTable) /\ out.op = "newTable") =>
        /\ out.err = NoErr
        /\ tab[TestTable].open
        /\ LET g == TableGet(StoreOf(TestTable), hist[TestTable][2].key)
           IN g.err = NoErr /\ g.val = hist[TestTable][2].val

----------------------------------------------------------------------------
(* C38 (SpecRunEnd).                                                        *)

\* The release call p makes in the step, if it makes one.
ReleaseCalls(p) ==
    IF Len(trace'[p]) = Len(trace[p]) + 1
          /\ trace'[p][Len(trace'[p])][1] \in {"Unlock", "RUnlock"}
    THEN {trace'[p][Len(trace'[p])]}
    ELSE {}

\* C38: every release call of a transaction, from whichever EndTx (the one f
\* calls on the Tx it was given, or the one of RunTx), is on a lock the
\* transaction holds at that moment in the mode of the call, and on a table
\* the transaction has not released before.
C38_ReleasedOnce ==
    [][\A p \in Threads : \A c \in ReleaseCalls(p) :
          /\ IF c[1] = "Unlock" THEN locks[c[2]].w = p ELSE p \in locks[c[2]].r
          /\ ~Released(p, c[2])]_vars

----------------------------------------------------------------------------
(* C39 (SpecOps).                                                           *)

\* The transaction of p has begun on table t and has not ended; p may be
\* inside a call on a table.
BegunOn(p, t) ==
    /\ pc[p] \in {"begun", "intable"}
    /\ ~tx[p].done
    /\ InTx(p, t)

ReadOps == {"Read", "Get"}

\* C39: while the transaction of p has begun on table t, no other thread is
\* inside a put on t, and the content of t changes only when a put of p
\* itself returns; a Read or Get of p on t returns what the content of t at
\* that moment gives for the key.  So two reads of a key by p with no put of
\* p between them return the same, and Count the same number.
C39_StableReads ==
    /\ [](\A p \in Threads : \A q \in Threads \ {p} : \A t \in Tables :
            BegunOn(p, t) => ~(acc[q].op \in PutOps /\ acc[q].tab = t))
    /\ [][\A p \in Threads : \A t \in Tables :
            (BegunOn(p, t) /\ BegunOn(p, t)' /\ index'[t] # index[t]) =>
                acc[p].op \in PutOps /\ acc[p].tab = t /\ acc'[p] = NoAcc]_vars
    /\ [][\A p \in Threads :
            (acc[p].op \in ReadOps /\ BegunOn(p, acc[p].tab) /\ acc'[p] = NoAcc) =>
                ret'[p].err = TableResult(acc[p], index[acc[p].tab])]_vars

\* A transaction that reads table 1 has got a value from Read while a thread
\* that wants table 1 writable waits in Lock.
C39_Witness ==
    \E p \in Threads, q \in Threads :
        /\ p # q
        /\ BegunOn(p, 1) /\ ~Writable(p, 1)
        /\ ret[p] = [op |-> "Read", err |-> NoErr]
        /\ index[1] # {}
        /\ Writable(q, 1)
        /\ q \in locks[1].ww

----------------------------------------------------------------------------
(* C40 (SpecErrors).                                                        *)

\* C40: errors.Is of a table-not-bound-to-transaction error against a
\* key-not-found target is false.
C40_KindsDistinct ==
    (out.op = "errors.Is"
        /\ out.visited[1].type = "ErrTableNotInTx"
        /\ out.visited[2].type = "ErrKeyNotFound") => ~out.ok
====
